---- MODULE Spec2Model ----
(***************************************************************************)
(* A model of Backgrid's cell editing and header sorting                   *)
(* (src/lib/backgrid.js).                                                  *)
(*                                                                         *)
(* One editable table cell (Backgrid.Cell and its subclasses StringCell    *)
(* and EmailCell), the DivCellEditor it opens, and the attribute of the    *)
(* Backbone model the two read and write.  Every DOM event handler runs to *)
(* completion, so each handler is one action.  The handlers are written as *)
(* functions from a record w (the objects' fields) to the record after the *)
(* call; an action applies its handler to the current state.               *)
(***************************************************************************)
EXTENDS Integers, Sequences, FiniteSets, TLC

VARIABLES
  column,     \* the Column of the cell: [editable, cell]
  validate,   \* the validation policy of the attribute store (Backbone model)
  model,      \* the raw value of the model's attribute named by the column
  cell,       \* the Cell view: [formatter, currentEditor, classes, delegated,
              \*                 content, subs], of class column.cell
  editors,    \* the editors constructed so far: id -> editor view
  made,       \* how many editors have been constructed
  trace,      \* the DOM event being handled and the steps its handler took
  thrown,     \* whether the handler ended by an uncaught exception
  columns,    \* the Columns of the grid's header: name -> [sortable]
  header,     \* the HeaderCell of each column: name -> [direction, classes]
  collection, \* the models of the grid's Backbone collection, in its order
  rows,       \* Body.rows: the cid of the model of each row, in order
  sortEvent,  \* the arguments of the last "sort" event a HeaderCell triggered
  seen,       \* the sort triggers so far: <<column, direction before, after>>
  theFormatter, \* the formatter whose fromRaw and toRaw are called
  timezone,   \* the local time zone of the runtime, in minutes east of UTC
  call        \* the last constructor or formatter call: [fn, arg, from, outcome]

cellVars == <<column, validate, model, cell, editors, made, trace, thrown>>
sortVars == <<columns, header, collection, rows, sortEvent, seen>>
callVars == <<theFormatter, timezone, call>>
vars == <<cellVars, sortVars, callVars>>

----------------------------------------------------------------------------
(* Bounds *)

MaxEditors == 2     \* editors constructed in one behaviour
MaxLen == 1         \* length of a text the user types, and of the first raw value
NumModels == 2      \* models in the collection
MaxTriggers == 4    \* clicks on header anchors in one behaviour

Chars == {"a", "@", "&"}

Texts == UNION {[1..n -> Chars] : n \in 0..MaxLen}

\* JavaScript's undefined; no text, since "undefined" is not in Chars.
Undefined == <<"undefined">>

----------------------------------------------------------------------------
(* Formatters *)

\* Backgrid.Formatter
FormatterFromRaw(rawData) == rawData
FormatterToRaw(formattedData) == formattedData

\* _.escape on one character of Chars
EscapeChar(c) == IF c = "&" THEN <<"&", "a", "m", "p", ";">> ELSE <<c>>

RECURSIVE Escape(_)
Escape(s) == IF s = <<>> THEN <<>> ELSE EscapeChar(Head(s)) \o Escape(Tail(s))

\* StringCell.formatter
StringFromRaw(rawData) == Escape(rawData)
StringToRaw(formattedData) == formattedData

\* formattedData.indexOf("@") === -1
IndexOfAtIsMinusOne(s) == \A i \in DOMAIN s : s[i] # "@"

\* EmailCell.formatter
EmailFromRaw(rawData) == rawData
EmailToRaw(formattedData) ==
  IF IndexOfAtIsMinusOne(formattedData) THEN Undefined ELSE formattedData

CellTypes == {"Cell", "StringCell", "EmailCell"}

\* the cell classes whose formatter is a NumberFormatter or a
\* DatetimeFormatter; the raw values of their attribute are JavaScript values
\* of any type, where those of CellTypes are texts
NumberCellTypes == {"NumberCell", "IntegerCell"}
DatetimeCellTypes == {"DatetimeCell"}

\* the formatter property of each cell class, and for NumberCellTypes and
\* DatetimeCellTypes the formatter that initialize constructs
DefaultFormatter(cellType) ==
  CASE cellType = "Cell" -> "Formatter"
    [] cellType = "StringCell" -> "StringCell.formatter"
    [] cellType = "EmailCell" -> "EmailCell.formatter"
    [] cellType = "NumberCell" -> "NumberCell.formatter"
    [] cellType = "IntegerCell" -> "IntegerCell.formatter"
    [] cellType = "DatetimeCell" -> "DatetimeCell.formatter"

ConstructedFormatters ==
  {"NumberCell.formatter", "IntegerCell.formatter", "DatetimeCell.formatter"}

\* A constructed formatter is held in theFormatter, as the graphs of its
\* methods over the raw values and the texts that the cell can come to hold
\* (FormatterGraph below): whether fromRaw ends by an exception, else what it
\* returns, and what toRaw returns.

\* formatter.fromRaw(rawData) ends by an exception
FromRawThrows(formatter, rawData) ==
  /\ formatter \in ConstructedFormatters
  /\ theFormatter.throws[rawData]

FromRaw(formatter, rawData) ==
  CASE formatter = "Formatter" -> FormatterFromRaw(rawData)
    [] formatter = "StringCell.formatter" -> StringFromRaw(rawData)
    [] formatter = "EmailCell.formatter" -> EmailFromRaw(rawData)
    [] formatter \in ConstructedFormatters -> theFormatter.fromRaw[rawData]

ToRaw(formatter, formattedData) ==
  CASE formatter = "Formatter" -> FormatterToRaw(formattedData)
    [] formatter = "StringCell.formatter" -> StringToRaw(formattedData)
    [] formatter = "EmailCell.formatter" -> EmailToRaw(formattedData)
    [] formatter \in ConstructedFormatters -> theFormatter.toRaw[formattedData]

\* "undefined" === typeof valueToSet, for the value toRaw of formatter returned
TypeofUndefined(formatter, valueToSet) ==
  IF formatter \in ConstructedFormatters
  THEN valueToSet.t = "undefined"
  ELSE valueToSet = Undefined

----------------------------------------------------------------------------
(* The attribute store *)

\* "none": the model has no validate method; "nonEmpty": validate rejects the
\* empty string; "readOnly": validate rejects every write.
Validators == {"none", "nonEmpty", "readOnly"}

Accepts(v, value) ==
  CASE v = "none" -> TRUE
    [] v = "nonEmpty" -> value # <<>>
    [] v = "readOnly" -> FALSE

----------------------------------------------------------------------------
(* Objects *)

NoEditor ==
  [text |-> <<>>, delegated |-> FALSE, inDom |-> FALSE, focused |-> FALSE,
   subs |-> <<>>]

EmptyContent == [kind |-> "empty", text |-> <<>>, ed |-> 0]

\* the record the handlers work on
World ==
  [column |-> column, validate |-> validate, model |-> model, cell |-> cell, editors |-> editors,
   made |-> made, trace |-> trace, thrown |-> thrown]

Log(w, step) == [w EXCEPT !.trace = Append(@, step)]

----------------------------------------------------------------------------
(* Key codes tested by DivCellEditor.saveOrCancel *)

KeyEnter == 13
KeyTab == 9
KeyEscape == 27
OtherKeys == {8, 65}     \* keys that are none of the three: backspace, "a"

----------------------------------------------------------------------------
(* DivCellEditor *)

\* new this.editor({parent, column, model, formatter}): the Backbone.View
\* constructor creates the element, runs CellEditor.initialize (subscribes
\* postRender to the parent's "editing") and DivCellEditor.initialize
\* (subscribes remove to its own "done"), then delegates the DOM events.
NewEditor(w, id) ==
  Log([w EXCEPT !.made = id,
                !.editors[id] =
                   [text |-> <<>>, delegated |-> TRUE, inDom |-> FALSE,
                    focused |-> FALSE,
                    subs |-> <<[ev |-> "done", cb |-> "remove", ctx |-> "editor"]>>],
                !.cell.subs =
                   Append(@, [ev |-> "editing", cb |-> "postRender", ctx |-> id])],
      <<"new", "editor", id>>)

\* dispose without parent.off: the editor stays subscribed to the cell
EditorDisposeKeepsParent(w, id) ==
  [w EXCEPT !.editors[id].delegated = FALSE]

\* CellEditor.dispose, then the dispose of the Backbone.View patch:
\* parent.off(null, null, this) and undelegateEvents.
EditorDispose(w, id) ==
  [w EXCEPT !.cell.subs = SelectSeq(@, LAMBDA s : s.ctx # id),
            !.editors[id].delegated = FALSE]

\* DivCellEditor.remove: Backbone.View remove (dispose, then $el.remove()).
EditorRemove(w, id) ==
  LET d == EditorDispose(w, id)
  IN  [d EXCEPT !.editors[id].inDom = FALSE,
                !.editors[id].focused = FALSE,
                !.cell.content =
                   IF @.kind = "editor" /\ @.ed = id THEN EmptyContent ELSE @]

\* DivCellEditor.render
EditorRender(w, id) ==
  IF FromRawThrows(w.cell.formatter, w.model)
  THEN [w EXCEPT !.thrown = TRUE]
  ELSE Log([w EXCEPT !.editors[id].text = FromRaw(w.cell.formatter, w.model)],
           <<"render", "editor", id>>)

\* DivCellEditor.postRender: this.$el.focus()
PostRender(w, id) ==
  IF w.editors[id].inDom
  THEN Log([w EXCEPT !.editors =
                [i \in DOMAIN @ |-> [@[i] EXCEPT !.focused = (i = id)]]],
           <<"focus", "editor", id>>)
  ELSE w

----------------------------------------------------------------------------
(* Cell *)

\* this.$el.empty(): jQuery removes the children and cleans their handlers
CellEmpty(w) ==
  LET c == w.cell.content
  IN  IF c.kind = "editor"
      THEN [w EXCEPT !.editors[c.ed].inDom = FALSE,
                     !.editors[c.ed].focused = FALSE,
                     !.editors[c.ed].delegated = FALSE,
                     !.cell.content = EmptyContent]
      ELSE [w EXCEPT !.cell.content = EmptyContent]

\* Cell.render; EmailCell.render puts the text in an anchor
CellRender(w) ==
  LET e == CellEmpty(w)
      formattedValue == FromRaw(w.cell.formatter, w.model)
  IN  IF FromRawThrows(w.cell.formatter, w.model)
      THEN [e EXCEPT !.thrown = TRUE]
      ELSE [e EXCEPT !.cell.content =
              [kind |-> IF w.column.cell = "EmailCell" THEN "anchor" ELSE "text",
               text |-> formattedValue, ed |-> 0]]

\* renderError without the class
RenderErrorNoMarker(w) == w

\* Cell.renderError
RenderError(w) == [w EXCEPT !.cell.classes = @ \cup {"error"}]

\* the click handler left delegated while editing
CellStaysDelegated(w) == w

\* this.undelegateEvents() in Cell.enterEditMode
CellUndelegateEvents(w) == [w EXCEPT !.cell.delegated = FALSE]

\* removeClass that forgets the error class
CellRemoveClassKeepsError(w, name) ==
  IF name = "error" THEN w ELSE [w EXCEPT !.cell.classes = @ \ {name}]

\* this.$el.removeClass(name) in Cell.exitEditMode
CellRemoveClass(w, name) == [w EXCEPT !.cell.classes = @ \ {name}]

\* exitEditMode that removes the editor and leaves the classes of the cell
ExitEditModeKeepsClasses(w) ==
  IF w.cell.currentEditor = 0
  THEN [w EXCEPT !.thrown = TRUE]
  ELSE LET id == w.cell.currentEditor
           w2 == [w EXCEPT !.editors[id].subs =
                              SelectSeq(@, LAMBDA s : s.ctx # "cell")]
           w3 == EditorRemove(w2, id)
           w4 == [w3 EXCEPT !.cell.currentEditor = 0]
           w6 == CellRender(w4)
       IN  IF w6.thrown THEN w6 ELSE [w6 EXCEPT !.cell.delegated = TRUE]

\* Cell.exitEditMode; with no currentEditor the call on it is a TypeError
ExitEditMode(w) ==
  IF w.cell.currentEditor = 0
  THEN [w EXCEPT !.thrown = TRUE]
  ELSE LET id == w.cell.currentEditor
           w0 == IF "error" \in w.cell.classes
                 THEN Log(w, <<"removeClass", "error", id>>) ELSE w
           w1 == CellRemoveClass(w0, "error")
           w2 == [w1 EXCEPT !.editors[id].subs =
                               SelectSeq(@, LAMBDA s : s.ctx # "cell")]
           w3 == EditorRemove(w2, id)
           w4 == [w3 EXCEPT !.cell.currentEditor = 0]
           w5 == CellRemoveClass(w4, "editor")
           w6 == CellRender(w5)
       IN  IF w6.thrown THEN w6 ELSE [w6 EXCEPT !.cell.delegated = TRUE]

\* a callback subscribed to an event of editor id
Call(w, sub, id) ==
  CASE sub.cb = "remove" -> EditorRemove(w, id)
    [] sub.cb = "exitEditMode" -> ExitEditMode(w)
    [] sub.cb = "renderError" -> RenderError(w)
    [] sub.cb = "postRender" -> PostRender(w, sub.ctx)

RECURSIVE RunCallbacks(_, _, _)
RunCallbacks(w, subs, id) ==
  IF subs = <<>> \/ w.thrown
  THEN w
  ELSE RunCallbacks(Call(w, Head(subs), id), Tail(subs), id)

\* editor.trigger(ev): the callbacks subscribed when the event is triggered,
\* in the order of their subscription
EditorTrigger(w, id, ev) ==
  RunCallbacks(Log(w, <<"trigger", ev, id>>),
               SelectSeq(w.editors[id].subs, LAMBDA s : s.ev = ev), id)

\* cell.trigger(ev, cell, editor)
CellTrigger(w, ev, id) ==
  RunCallbacks(Log(w, <<"trigger", ev, id>>),
               SelectSeq(w.cell.subs, LAMBDA s : s.ev = ev), id)

\* the editable flag ignored
ColumnEditableIgnored(w) == TRUE

\* this.column.get("editable")
ColumnEditable(w) == w.column.editable

\* enterEditMode with the "edit" event triggered after the editor is inserted
EnterEditModeLateEdit(w) ==
  IF ColumnEditable(w)
  THEN LET id == w.made + 1
           w1 == [NewEditor(w, id) EXCEPT !.cell.currentEditor = id]
           w3 == [w1 EXCEPT !.editors[id].subs =
                     @ \o <<[ev |-> "done", cb |-> "exitEditMode", ctx |-> "cell"],
                            [ev |-> "error", cb |-> "renderError", ctx |-> "cell"]>>]
           w4 == CellUndelegateEvents(CellEmpty(w3))
           w5 == EditorRender(w4, id)
           w6 == Log([w5 EXCEPT !.cell.content =
                                   [kind |-> "editor", text |-> <<>>, ed |-> id],
                                !.editors[id].inDom = TRUE],
                     <<"append", "editor", id>>)
           w2 == CellTrigger(w6, "edit", id)
           w7 == Log([w2 EXCEPT !.cell.classes = @ \cup {"editor"}],
                     <<"addClass", "editor", id>>)
       IN  IF w5.thrown THEN w5 ELSE CellTrigger(w7, "editing", id)
  ELSE w

\* Cell.enterEditMode
EnterEditMode(w) ==
  IF ColumnEditable(w)
  THEN LET id == w.made + 1
           w1 == [NewEditor(w, id) EXCEPT !.cell.currentEditor = id]
           w2 == CellTrigger(w1, "edit", id)
           w3 == [w2 EXCEPT !.editors[id].subs =
                     @ \o <<[ev |-> "done", cb |-> "exitEditMode", ctx |-> "cell"],
                            [ev |-> "error", cb |-> "renderError", ctx |-> "cell"]>>]
           w4 == CellUndelegateEvents(CellEmpty(w3))
           w5 == EditorRender(w4, id)
           w6 == Log([w5 EXCEPT !.cell.content =
                                   [kind |-> "editor", text |-> <<>>, ed |-> id],
                                !.editors[id].inDom = TRUE],
                     <<"append", "editor", id>>)
           w7 == Log([w6 EXCEPT !.cell.classes = @ \cup {"editor"}],
                     <<"addClass", "editor", id>>)
       IN  IF w5.thrown THEN w5 ELSE CellTrigger(w7, "editing", id)
  ELSE w

----------------------------------------------------------------------------
(* DivCellEditor.saveOrCancel *)

\* a set that reports success and writes nothing
ModelSetLost(w, id, valueToSet) ==
  IF Accepts(w.validate, valueToSet)
  THEN Log(w, <<"set", "ok", id>>)
  ELSE Log(w, <<"set", "rejected", id>>)

\* this.model.set(name, valueToSet): Backbone writes the attribute unless the
\* model's validate rejects it
ModelSet(w, id, valueToSet) ==
  IF Accepts(w.validate, valueToSet)
  THEN Log([w EXCEPT !.model = valueToSet], <<"set", "ok", id>>)
  ELSE Log(w, <<"set", "rejected", id>>)

\* the result of model.set not tested
SaveIgnoringRejection(w, id) ==
  LET valueToSet == ToRaw(w.cell.formatter, w.editors[id].text)
  IN  IF TypeofUndefined(w.cell.formatter, valueToSet)
      THEN EditorTrigger(w, id, "error")
      ELSE EditorTrigger(ModelSet(w, id, valueToSet), id, "done")

\* the enter or tab branch
Save(w, id) ==
  LET valueToSet == ToRaw(w.cell.formatter, w.editors[id].text)
  IN  IF TypeofUndefined(w.cell.formatter, valueToSet)
      THEN EditorTrigger(w, id, "error")
      ELSE IF Accepts(w.validate, valueToSet)
           THEN EditorTrigger(ModelSet(w, id, valueToSet), id, "done")
           ELSE EditorTrigger(ModelSet(w, id, valueToSet), id, "error")

\* leaving the editor saves what was typed
UndoSaves(w, id) ==
  LET valueToSet == ToRaw(w.cell.formatter, w.editors[id].text)
  IN  IF TypeofUndefined(w.cell.formatter, valueToSet)
      THEN EditorTrigger(w, id, "done")
      ELSE EditorTrigger(ModelSet(w, id, valueToSet), id, "done")

\* the esc branch and the blur branch
Undo(w, id) ==
  IF FromRawThrows(w.cell.formatter, w.model)
  THEN [w EXCEPT !.thrown = TRUE]
  ELSE EditorTrigger(
         [w EXCEPT !.editors[id].text = FromRaw(w.cell.formatter, w.model)],
         id, "done")

SaveOrCancel(w, id, e) ==
  IF e[2] = "keydown"
  THEN IF e[3] = KeyEnter \/ e[3] = KeyTab
       THEN Save(w, id)
       ELSE IF e[3] = KeyEscape THEN Undo(w, id) ELSE w
  ELSE IF e[2] = "blur" THEN Undo(w, id) ELSE w

----------------------------------------------------------------------------
(* Actions: one per DOM event *)

Becomes(w) ==
  /\ model' = w.model
  /\ cell' = w.cell
  /\ editors' = w.editors
  /\ made' = w.made
  /\ trace' = w.trace
  /\ thrown' = w.thrown
  /\ UNCHANGED <<column, validate>>
  /\ UNCHANGED sortVars
  /\ UNCHANGED callVars

\* the state a handler of the event starts from
Handling(event) == [World EXCEPT !.trace = <<event>>, !.thrown = FALSE]

\* the editor that has the focus and whose events are delegated
Listening(id) == editors[id].focused /\ editors[id].delegated

\* a click on the cell (or inside it): events: {click: "enterEditMode"}
Click ==
  /\ (cell.delegated /\ column.editable) => made < MaxEditors
  /\ LET w == Handling(<<"event", "click", 0>>)
     IN  Becomes(IF cell.delegated THEN EnterEditMode(w) ELSE w)

\* the texts a user may leave in the editor of a cell of the class
EditorTexts(cellType) ==
  CASE cellType \in NumberCellTypes ->
         {<<>>, <<"x">>, <<"7">>, <<"1", ".", "5">>}
    [] cellType \in DatetimeCellTypes ->
         {<<>>, <<"x">>,
          <<"2", "0", "1", "2", "-", "0", "2", "-", "2", "9", " ", "1", "0", ":", "0", "0", ":", "0", "0">>,
          <<"2", "0", "1", "2", "-", "0", "2", "-", "3", "0">>}
    [] OTHER -> Texts

\* a key that edits the text; the browser changes the text, the handler
\* does nothing
Type ==
  \E id \in 1..made, t \in EditorTexts(column.cell), keyCode \in OtherKeys :
    /\ Listening(id)
    /\ LET e == <<"event", "keydown", keyCode>>
           w == Handling(e)
       IN  Becomes(SaveOrCancel([w EXCEPT !.editors[id].text = t], id, e))

Keydown(keyCode) ==
  \E id \in 1..made :
    /\ Listening(id)
    /\ LET e == <<"event", "keydown", keyCode>>
       IN  Becomes(SaveOrCancel(Handling(e), id, e))

Blur ==
  \E id \in 1..made :
    /\ Listening(id)
    /\ LET e == <<"event", "blur", 0>>
       IN  Becomes(SaveOrCancel(Handling(e), id, e))

\* the cell stands alone: no header and no collection
NoGrid ==
  /\ columns = <<>>
  /\ header = <<>>
  /\ collection = <<>>
  /\ rows = <<>>
  /\ sortEvent = <<>>
  /\ seen = <<>>

\* no formatter is called and nothing is constructed apart from the grid
NoCall ==
  /\ theFormatter = <<>>
  /\ timezone = 0
  /\ call = <<>>

Init ==
  /\ column \in [editable : BOOLEAN, cell : CellTypes]
  /\ validate \in Validators
  /\ model \in Texts
  /\ editors = [i \in 1..MaxEditors |-> NoEditor]
  /\ made = 0
  /\ cell = [formatter |-> DefaultFormatter(column.cell),
             currentEditor |-> 0,
             classes |-> {},
             delegated |-> TRUE,
             content |-> [kind |-> IF column.cell = "EmailCell"
                                   THEN "anchor" ELSE "text",
                          text |-> FromRaw(DefaultFormatter(column.cell), model),
                          ed |-> 0],
             subs |-> <<>>]
  /\ trace = <<>>
  /\ thrown = FALSE
  /\ NoGrid
  /\ NoCall

Next ==
  \/ Click
  \/ Type
  \/ Keydown(KeyEnter)
  \/ Keydown(KeyTab)
  \/ Keydown(KeyEscape)
  \/ Blur

Spec == Init /\ [][Next]_vars

----------------------------------------------------------------------------
(* Values of model attributes and ids, with JavaScript's comparisons *)

Null == "null"

JsUndefined == [t |-> "undefined", n |-> 0]
Num(n) == [t |-> "number", n |-> n]
IsUndefined(v) == v.t = "undefined"

\* a === b
StrictEquals(a, b) == a = b

\* a < b: false when either side is undefined
Less(a, b) == a.t = "number" /\ b.t = "number" /\ a.n < b.n

\* a > b
Greater(a, b) == a.t = "number" /\ b.t = "number" /\ a.n > b.n

\* the decimal digits of n, n >= 0
RECURSIVE Digits(_)
Digits(n) == IF n < 10 THEN <<n>> ELSE Append(Digits(n \div 10), n % 10)

\* s < t for strings of digits: the first difference decides, else the length
RECURSIVE StringLess(_, _)
StringLess(s, t) ==
  IF t = <<>> THEN FALSE
  ELSE IF s = <<>> THEN TRUE
  ELSE IF Head(s) # Head(t) THEN Head(s) < Head(t)
  ELSE StringLess(Tail(s), Tail(t))

\* cids are the strings "c" + n: lcid < rcid compares them as strings
CidLess(lcid, rcid) == StringLess(Digits(lcid), Digits(rcid))

----------------------------------------------------------------------------
(* HeaderCell, Header and Body *)

ColumnNames == {"a", "b"}

NoComparator == [fn |-> Null, col |-> ""]

\* the comparator HeaderCell.triggerSort builds when direction is "ascending"
ComparatorWhenAscending(columnName, left, right) ==
  LET leftVal == left.attrs[columnName]
      rightVal == right.attrs[columnName]
  IN  IF StrictEquals(leftVal, rightVal) THEN 0
      ELSE IF Greater(leftVal, rightVal) THEN -1
      ELSE 1

\* the signs of the two inequalities exchanged
ComparatorInverted(columnName, left, right) ==
  LET leftVal == left.attrs[columnName]
      rightVal == right.attrs[columnName]
  IN  IF StrictEquals(leftVal, rightVal) THEN 0
      ELSE IF Less(leftVal, rightVal) THEN 1
      ELSE -1

\* the comparator HeaderCell.triggerSort builds when direction is not set
ComparatorWhenUnsorted(columnName, left, right) ==
  LET leftVal == left.attrs[columnName]
      rightVal == right.attrs[columnName]
  IN  IF StrictEquals(leftVal, rightVal) THEN 0
      ELSE IF Less(leftVal, rightVal) THEN -1
      ELSE 1

\* Body._idCidComparator
IdCidComparator(left, right) ==
  LET lid == left.id
      lcid == left.cid
      rid == right.id
      rcid == right.cid
  IN  IF ~IsUndefined(lid) \/ ~IsUndefined(rid)
      THEN IF Less(lid, rid) THEN -1
           ELSE IF Greater(lid, rid) THEN 1
           ELSE 0
      ELSE \* the branches on an id and a cid are not reached: both ids are
           \* undefined here
           IF CidLess(lcid, rcid) THEN -1
           ELSE IF CidLess(rcid, lcid) THEN 1
           ELSE 0

\* comparator(left, right)
Compare(comparator, left, right) ==
  CASE comparator.fn = "whenAscending" ->
         ComparatorWhenAscending(comparator.col, left, right)
    [] comparator.fn = "whenUnsorted" ->
         ComparatorWhenUnsorted(comparator.col, left, right)
    [] comparator.fn = "idCid" -> IdCidComparator(left, right)

Orderings(n) ==
  {p \in [1..n -> 1..n] : \A i, j \in 1..n : i # j => p[i] # p[j]}

\* this.models.sort(comparator): Array.prototype.sort gives an order the
\* comparator agrees with, any of them when elements compare equal (the sort
\* need not be stable), and an order the engine chooses when the comparator
\* is not consistent
ArraySort(models, comparator) ==
  LET n == Len(models)
      all == {[i \in 1..n |-> models[p[i]]] : p \in Orderings(n)}
      sorted == {s \in all :
                   \A i, j \in 1..n : i < j => Compare(comparator, s[i], s[j]) <= 0}
  IN  IF sorted # {} THEN sorted ELSE all

\* Body.refresh, run on the collection's "reset": a row per model
BodyRefresh(h) ==
  [h EXCEPT !.rows = [i \in 1..Len(h.collection.models) |-> h.collection.models[i].cid]]

\* Body.sort that leaves its comparator on the collection
BodySortNotRestoring(h, comparator) ==
  LET used == IF comparator = NoComparator
              THEN [fn |-> "idCid", col |-> ""] ELSE comparator
  IN  {BodyRefresh([h EXCEPT !.collection.models = s,
                             !.collection.comparator = used]) :
         s \in ArraySort(h.collection.models, used)}

\* Body.sort: the outcomes of sorting with comparator, or with
\* _idCidComparator when comparator is null
BodySort(h, comparator) ==
  LET oldComparator == h.collection.comparator
      used == IF comparator = NoComparator
              THEN [fn |-> "idCid", col |-> ""] ELSE comparator
  IN  {[BodyRefresh([h EXCEPT !.collection.models = s])
          EXCEPT !.collection.comparator = oldComparator] :
         s \in ArraySort(h.collection.models, used)}

\* toggle that sets this.direction only inside if (direction)
ToggleKeepsDirection(hc, name, columnName, direction) ==
  IF columnName = name
  THEN [direction |-> IF direction # Null THEN direction ELSE hc.direction,
        classes |-> IF direction # Null THEN {direction} ELSE {}]
  ELSE [direction |-> Null, classes |-> {}]

\* toggle that leaves the header cells of the other columns as they are
ToggleOwnColumnOnly(hc, name, columnName, direction) ==
  IF columnName = name
  THEN [direction |-> direction,
        classes |-> IF direction # Null THEN {direction} ELSE {}]
  ELSE hc

\* HeaderCell.toggle of the header cell of column name
Toggle(hc, name, columnName, direction) ==
  IF columnName = name
  THEN [direction |-> direction,
        classes |-> IF direction # Null THEN {direction} ELSE {}]
  ELSE [direction |-> Null, classes |-> {}]

\* Header.dispatchSortEvent: this.parent.sort(comparator) is Grid.sort, which
\* is Body.sort; then every header cell is toggled
DispatchSortEvent(h, comparator, sortByColName, direction) ==
  {[b EXCEPT !.header =
       [name \in DOMAIN @ |-> Toggle(@[name], name, sortByColName, direction)]] :
     b \in BodySort(h, comparator)}

\* self.trigger("sort", comparator, columnName, direction), to which Header
\* subscribed dispatchSortEvent
TriggerSortEvent(h, comparator, columnName, direction) ==
  DispatchSortEvent(
    [h EXCEPT !.sortEvent = [comparator |-> comparator,
                             columnName |-> columnName,
                             direction |-> direction]],
    comparator, columnName, direction)

\* HeaderCell.triggerSort of the header cell of column columnName
TriggerSort(h, columnName) ==
  IF h.columns[columnName].sortable
  THEN IF h.header[columnName].direction = "ascending"
       THEN TriggerSortEvent(h, [fn |-> "whenAscending", col |-> columnName],
                             columnName, "descending")
       ELSE IF h.header[columnName].direction = "descending"
            THEN TriggerSortEvent(h, NoComparator, columnName, Null)
            ELSE TriggerSortEvent(h, [fn |-> "whenUnsorted", col |-> columnName],
                                  columnName, "ascending")
  ELSE {h}

HeaderWorld ==
  [columns |-> columns, header |-> header, collection |-> collection,
   rows |-> rows, sortEvent |-> sortEvent]

NoEvent == [comparator |-> NoComparator, columnName |-> "", direction |-> Null]

\* a click on the anchor of the header cell of column name:
\* events: {"click a": "triggerSort"}
HeaderClick(name) ==
  /\ Len(seen) < MaxTriggers
  /\ \E h \in TriggerSort(HeaderWorld, name) :
       /\ header' = h.header
       /\ collection' = h.collection
       /\ rows' = h.rows
       /\ sortEvent' = h.sortEvent
       /\ seen' = Append(seen, [column |-> name,
                                sortable |-> columns[name].sortable,
                                before |-> header[name].direction,
                                after |-> h.header[name].direction,
                                event |-> IF columns[name].sortable
                                          THEN h.sortEvent ELSE NoEvent])
  /\ UNCHANGED columns
  /\ UNCHANGED cellVars
  /\ UNCHANGED callVars

AttrValues == {Num(0), Num(1)}

FirstCids == {1, 9}

\* the ids of the models: none has one (new models), or each has its own,
\* growing or shrinking along the collection
IdAssignments ==
  {[k \in 1..NumModels |-> JsUndefined],
   [k \in 1..NumModels |-> Num(k)],
   [k \in 1..NumModels |-> Num(NumModels + 1 - k)]}

\* the grid is built and rendered over a collection of NumModels models
\* created one after the other; no cell is being edited
SortInit ==
  /\ columns \in [ColumnNames -> [sortable : BOOLEAN]]
  /\ header = [name \in ColumnNames |-> [direction |-> Null, classes |-> {}]]
  /\ \E first \in FirstCids, ids \in IdAssignments,
        attrs \in [1..NumModels -> [ColumnNames -> AttrValues]] :
       collection =
         [models |-> [k \in 1..NumModels |->
                        [cid |-> first + k - 1, id |-> ids[k], attrs |-> attrs[k]]],
          comparator |-> NoComparator]
  /\ rows = [k \in 1..NumModels |-> collection.models[k].cid]
  /\ sortEvent = NoEvent
  /\ seen = <<>>
  /\ column = [editable |-> FALSE, cell |-> "Cell"]
  /\ validate = "none"
  /\ model = <<>>
  /\ editors = [i \in 1..MaxEditors |-> NoEditor]
  /\ made = 0
  /\ cell = [formatter |-> DefaultFormatter(column.cell),
             currentEditor |-> 0,
             classes |-> {},
             delegated |-> TRUE,
             content |-> [kind |-> "text", text |-> <<>>, ed |-> 0],
             subs |-> <<>>]
  /\ trace = <<>>
  /\ thrown = FALSE
  /\ NoCall

SortNext == \E name \in ColumnNames : HeaderClick(name)

SortSpec == SortInit /\ [][SortNext]_vars

----------------------------------------------------------------------------
(* Properties of the cell and its editor *)

Has(tr, step) == \E i \in DOMAIN tr : tr[i] = step

Pos(tr, step) == CHOOSE i \in DOMAIN tr : tr[i] = step

Count(tr, step) == Cardinality({i \in DOMAIN tr : tr[i] = step})

ClickEvent == <<"event", "click", 0>>
BlurEvent == <<"event", "blur", 0>>
KeyEvent(keyCode) == <<"event", "keydown", keyCode>>

\* the handler of the step is the one of a commit gesture: enter or tab
IsCommit(tr) == tr # <<>> /\ tr[1] \in {KeyEvent(KeyEnter), KeyEvent(KeyTab)}

\* the handler of the step is the one of a cancel gesture: escape or blur
IsCancel(tr) == tr # <<>> /\ tr[1] \in {KeyEvent(KeyEscape), BlurEvent}

\* editor id has no node in the document, no DOM handler and no subscription
Detached(id) ==
  /\ ~editors[id].inDom
  /\ ~editors[id].delegated
  /\ ~editors[id].focused
  /\ \A i \in DOMAIN cell.subs : cell.subs[i].ctx # id
  /\ \A i \in DOMAIN editors[id].subs : editors[id].subs[i].ctx # "cell"

\* the cell shows text t and no editor
Displays(c, t) ==
  /\ c.currentEditor = 0
  /\ c.content.kind \in {"text", "anchor"}
  /\ c.content.text = t

\* the cell is editing with editor id inserted in it
Editing(c, eds, id) ==
  /\ id # 0
  /\ c.currentEditor = id
  /\ c.content = [kind |-> "editor", text |-> <<>>, ed |-> id]
  /\ eds[id].inDom

\* C1: a click on a cell in display mode: when the column is editable the
\* cell enters edit mode with exactly one new editor, which becomes
\* currentEditor; when the column is not editable nothing changes: no editor,
\* no marker, no event, the model as it was.
C1_Step ==
  (trace' # <<>> /\ trace'[1] = ClickEvent /\ cell.currentEditor = 0) =>
     IF column.editable
     THEN /\ made' = made + 1
          /\ Editing(cell', editors', made')
          /\ "editor" \in cell'.classes
          /\ \A i \in 1..MaxEditors : i # made' => editors'[i] = editors[i]
          /\ model' = model
     ELSE /\ cell' = cell
          /\ editors' = editors
          /\ made' = made
          /\ model' = model
          /\ trace' = <<ClickEvent>>

C1_ClickEntersEditMode == [][C1_Step]_vars

C1_Witness ==
  /\ trace # <<>> /\ trace[1] = ClickEvent
  /\ column.editable
  /\ Editing(cell, editors, made)

\* C2: the cell has at most one active editor: every editor other than
\* currentEditor is detached, an editor that signalled done is detached and
\* is not currentEditor, and a click while the cell is editing constructs no
\* editor.
C2_Inv ==
  /\ \A id \in 1..MaxEditors : id # cell.currentEditor => Detached(id)
  /\ Cardinality({id \in 1..MaxEditors : ~Detached(id)}) <= 1
  /\ cell.content.kind = "editor" => cell.content.ed = cell.currentEditor
  /\ \A id \in 1..MaxEditors :
       Has(trace, <<"trigger", "done", id>>) =>
          cell.currentEditor # id /\ Detached(id)

C2_Step ==
  (trace' # <<>> /\ trace'[1] = ClickEvent /\ cell.currentEditor # 0) =>
     /\ made' = made
     /\ cell' = cell
     /\ editors' = editors

C2_AtMostOneEditor == []C2_Inv /\ [][C2_Step]_vars

C2_Witness ==
  /\ trace = <<ClickEvent>>
  /\ cell.currentEditor # 0
  /\ ~Detached(cell.currentEditor)

\* the state after a failed commit of editor id: only the error marker is new
FailedCommit(id) ==
  /\ Has(trace', <<"trigger", "error", id>>)
  /\ ~Has(trace', <<"trigger", "done", id>>)
  /\ model' = model
  /\ Editing(cell, editors, id)
  /\ Editing(cell', editors', id)
  /\ editors' = editors
  /\ made' = made
  /\ cell' = [cell EXCEPT !.classes = @ \cup {"error"}]
  /\ {"editor", "error"} \subseteq cell'.classes

\* C3: a commit (enter or tab) whose text toRaw cannot convert: the editor
\* triggers error and not done, the model is not written, and the cell stays
\* in edit mode with the same editor and with the error marker.
C3_Step ==
  \A id \in 1..MaxEditors :
    (/\ Listening(id)
     /\ IsCommit(trace')
     /\ ToRaw(cell.formatter, editors[id].text) = Undefined)
    => /\ FailedCommit(id)
       /\ trace' = <<trace'[1], <<"trigger", "error", id>>>>

C3_UnparsableCommit == [][C3_Step]_vars

C3_Witness ==
  /\ IsCommit(trace)
  /\ cell.currentEditor # 0
  /\ ToRaw(cell.formatter, editors[cell.currentEditor].text) = Undefined
  /\ Has(trace, <<"trigger", "error", cell.currentEditor>>)
  /\ "error" \in cell.classes

\* C4: a commit whose text converts to v and whose write the store accepts:
\* the attribute becomes v, the editor triggers done, the cell discards the
\* editor and is back in display mode, and it shows fromRaw(v).
C4_Step ==
  \A id \in 1..MaxEditors :
    LET v == ToRaw(cell.formatter, editors[id].text)
    IN  (/\ Listening(id)
         /\ IsCommit(trace')
         /\ v # Undefined
         /\ Accepts(validate, v))
        => /\ model' = v
           /\ Has(trace', <<"trigger", "done", id>>)
           /\ ~Has(trace', <<"trigger", "error", id>>)
           /\ Displays(cell', FromRaw(cell.formatter, v))
           /\ Detached(id)'
           /\ cell'.classes = {}
           /\ cell'.delegated

C4_ValidCommit == [][C4_Step]_vars

C4_Witness ==
  /\ IsCommit(trace)
  /\ \E id \in 1..MaxEditors : Has(trace, <<"set", "ok", id>>)
  /\ Displays(cell, FromRaw(cell.formatter, model))
  /\ model # cell.content.text

\* C5: a commit whose text converts but whose write the store rejects ends
\* as a conversion failure does: error and not done, the attribute keeps its
\* value, the cell stays in edit mode with the error marker.
C5_Step ==
  \A id \in 1..MaxEditors :
    LET v == ToRaw(cell.formatter, editors[id].text)
    IN  (/\ Listening(id)
         /\ IsCommit(trace')
         /\ v # Undefined
         /\ ~Accepts(validate, v))
        => FailedCommit(id)

C5_RejectedWrite == [][C5_Step]_vars

C5_Witness ==
  /\ IsCommit(trace)
  /\ cell.currentEditor # 0
  /\ Has(trace, <<"set", "rejected", cell.currentEditor>>)
  /\ Has(trace, <<"trigger", "error", cell.currentEditor>>)
  /\ "error" \in cell.classes

\* C6: a cancel (escape, or a blur) with any text typed: the attribute is not
\* written, the editor triggers done, and the cell is back in display mode
\* showing fromRaw of the unchanged raw value.
C6_Step ==
  \A id \in 1..MaxEditors :
    (Listening(id) /\ IsCancel(trace'))
    => /\ model' = model
       /\ \A i \in DOMAIN trace' : trace'[i][1] # "set"
       /\ Has(trace', <<"trigger", "done", id>>)
       /\ Displays(cell', FromRaw(cell.formatter, model))
       /\ Detached(id)'
       /\ "editor" \notin cell'.classes

C6_Cancel == [][C6_Step]_vars

C6_Witness ==
  /\ IsCancel(trace)
  /\ \E id \in 1..MaxEditors : Has(trace, <<"trigger", "done", id>>)
  /\ Displays(cell, FromRaw(cell.formatter, model))

\* C7: the editing marker is on the cell exactly when the cell has an active
\* editor; the error marker is there only while the cell is editing, and
\* only if a commit of the current editor failed: it appears in a step whose
\* handler triggered error, and it never outlives the editor.
C7_Inv ==
  /\ "editor" \in cell.classes <=> cell.currentEditor # 0
  /\ cell.currentEditor # 0 => Editing(cell, editors, cell.currentEditor)
  /\ "error" \in cell.classes => cell.currentEditor # 0

C7_Step ==
  "error" \in cell'.classes =>
     /\ cell'.currentEditor = cell.currentEditor
     /\ \/ "error" \in cell.classes
        \/ /\ IsCommit(trace')
           /\ Has(trace', <<"trigger", "error", cell.currentEditor>>)

C7_Markers == []C7_Inv /\ [][C7_Step]_vars

C7_Witness ==
  /\ {"editor", "error"} \subseteq cell.classes
  /\ \E keyCode \in OtherKeys : trace = <<KeyEvent(keyCode)>>

\* C8: entering edit mode triggers "edit" after the editor is constructed and
\* before it is rendered and inserted, and "editing" after the editor is
\* inserted and the editing marker added; each is triggered once, with the
\* editor that is currentEditor; neither is triggered for a column that is
\* not editable, nor by any other event.
C8_EditEventsOrder ==
  LET id == cell.currentEditor
      edits == {i \in DOMAIN trace :
                  trace[i][1] = "trigger" /\ trace[i][2] \in {"edit", "editing"}}
  IN  /\ (trace # <<>> /\ trace[1] = ClickEvent /\ Len(trace) > 1) =>
           /\ id # 0
           /\ edits = {Pos(trace, <<"trigger", "edit", id>>),
                       Pos(trace, <<"trigger", "editing", id>>)}
           /\ Count(trace, <<"trigger", "edit", id>>) = 1
           /\ Count(trace, <<"trigger", "editing", id>>) = 1
           /\ Pos(trace, <<"new", "editor", id>>)
                < Pos(trace, <<"trigger", "edit", id>>)
           /\ Pos(trace, <<"trigger", "edit", id>>)
                < Pos(trace, <<"render", "editor", id>>)
           /\ Pos(trace, <<"render", "editor", id>>)
                < Pos(trace, <<"append", "editor", id>>)
           /\ Pos(trace, <<"append", "editor", id>>)
                < Pos(trace, <<"addClass", "editor", id>>)
           /\ Pos(trace, <<"addClass", "editor", id>>)
                < Pos(trace, <<"trigger", "editing", id>>)
      /\ edits # {} => trace[1] = ClickEvent /\ column.editable

C8_Witness ==
  /\ trace # <<>> /\ trace[1] = ClickEvent
  /\ cell.currentEditor # 0
  /\ Has(trace, <<"trigger", "editing", cell.currentEditor>>)

----------------------------------------------------------------------------
(* Properties of sorting *)

SortCycle == <<"ascending", "descending", Null, "ascending">>

\* triggers i .. i+k are successive triggers on one sortable column, the
\* first of them finding its direction not set
SuccessiveTriggers(i, k) ==
  /\ i \in DOMAIN seen
  /\ i + k \in DOMAIN seen
  /\ seen[i].sortable
  /\ seen[i].before = Null
  /\ \A m \in 0..k : seen[i + m].column = seen[i].column

\* C9: successive sort triggers on one sortable column whose direction is
\* none take the direction of its header cell through ascending, descending
\* and none, and a fourth trigger gives ascending again.
C9_SortCycle ==
  /\ \A i \in DOMAIN seen : \A k \in 0..3 :
       SuccessiveTriggers(i, k) =>
          /\ seen[i + k].after = SortCycle[k + 1]
          /\ seen[i + k].event.direction = SortCycle[k + 1]
          /\ seen[i + k].event.columnName = seen[i].column
  /\ seen # <<>> =>
       header[seen[Len(seen)].column].direction = seen[Len(seen)].after

C9_Witness ==
  /\ SuccessiveTriggers(1, 3)
  /\ header[seen[1].column].direction = "ascending"

\* the values to try a comparator on
ProbeValues == {Num(0), Num(1), Num(2)}

\* a model whose attribute col is v
Probe(col, v) ==
  [cid |-> 1, id |-> JsUndefined,
   attrs |-> [c \in ColumnNames |-> IF c = col THEN v ELSE Num(0)]]

Sign(x) == IF x < 0 THEN -1 ELSE IF x = 0 THEN 0 ELSE 1

\* C10: the comparator triggered with direction "ascending" gives -1 when
\* left < right, 0 when the values are equal and 1 when left > right; the
\* comparator triggered with "descending" is the mirror of the one triggered
\* with "ascending" for the column: descending(a, b) = ascending(b, a).
C10_ComparatorSigns ==
  \A i \in DOMAIN seen :
    LET e == seen[i].event
        col == e.columnName
    IN  /\ e.direction = "ascending" =>
              \A a, b \in ProbeValues :
                 Compare(e.comparator, Probe(col, a), Probe(col, b)) = Sign(a.n - b.n)
        /\ e.direction = "descending" =>
              \A j \in DOMAIN seen :
                 (seen[j].event.direction = "ascending"
                    /\ seen[j].event.columnName = col) =>
                   \A a, b \in ProbeValues :
                      Compare(e.comparator, Probe(col, a), Probe(col, b))
                        = Compare(seen[j].event.comparator, Probe(col, b), Probe(col, a))

C10_Witness ==
  /\ Len(seen) >= 2
  /\ seen[1].event.direction = "ascending"
  /\ seen[2].event.direction = "descending"
  /\ seen[2].event.columnName = seen[1].event.columnName

----------------------------------------------------------------------------
(* Properties of the unsorted order *)

\* the trigger that took the direction of its column from descending back to
\* none, as the last entry of seen
BackToNone ==
  /\ seen # <<>>
  /\ seen[Len(seen)].sortable
  /\ seen[Len(seen)].before = "descending"
  /\ seen[Len(seen)].after = Null

\* the rows are in the order in which their models were created
InsertionOrder(rs) == \A i, j \in DOMAIN rs : i < j => rs[i] < rs[j]

\* the models are in ascending order of their ids
AscendingIds(ms) == \A i, j \in DOMAIN ms : i < j => Less(ms[i].id, ms[j].id)

\* C11: when the direction of a column cycles back to none, the body sorts
\* with no comparator, and the rows are back in insertion order when no model
\* has an id (cids c1, c2, ..., c9, c10, ...) and in ascending order of id
\* when every model has one.
C11_NaturalOrder ==
  BackToNone =>
    /\ seen[Len(seen)].event.comparator = NoComparator
    /\ rows = [k \in DOMAIN rows |-> collection.models[k].cid]
    /\ (\A k \in DOMAIN collection.models : IsUndefined(collection.models[k].id))
         => InsertionOrder(rows)
    /\ (\A k \in DOMAIN collection.models : ~IsUndefined(collection.models[k].id))
         => AscendingIds(collection.models)

\* the half of C11 about models with ids
C11_WithIds ==
  (BackToNone /\ \A k \in DOMAIN collection.models :
                    ~IsUndefined(collection.models[k].id))
    => AscendingIds(collection.models)

\* the half of C11 about models without ids whose cids have as many digits
\* as each other
C11_SameWidthCids ==
  (/\ BackToNone
   /\ \A k \in DOMAIN collection.models : IsUndefined(collection.models[k].id)
   /\ \A i, j \in DOMAIN rows : Len(Digits(rows[i])) = Len(Digits(rows[j])))
    => InsertionOrder(rows)

----------------------------------------------------------------------------
(* JavaScript values of the constructors and the formatters *)

JsNull == [n |-> 0, t |-> "null"]

\* a string, as its first character and the rest of it; "" has neither
Str(head, tail) == [t |-> "string", head |-> head, tail |-> tail]
EmptyString == Str("", "")

\* a class exported by the Backgrid module, and an object that is not one
Class(name) == [t |-> "class", name |-> name]
Object(name) == [t |-> "object", name |-> name]

\* the conversion to boolean of !v and of a || b
TruthyAlways(v) == TRUE

Truthy(v) ==
  CASE v.t \in {"undefined", "null"} -> FALSE
    [] v.t = "string" -> v # EmptyString
    [] v.t = "number" -> v.n # 0
    [] v.t = "boolean" -> v.b
    [] OTHER -> TRUE

Or(a, b) == IF Truthy(a) THEN a ELSE b

\* the outcomes of a call
Thrown(error) == [kind |-> "thrown", error |-> error]
Returned(value) == [value |-> value, kind |-> "returned"]

\* the code units of the characters that begin the names used below, and of
\* the characters 32 below them
CharCode ==
  [c \in {"s", "S", "3", "n", "N", ".", "d", "D", "$", "i", "I", ")",
          "t", "T", "4", "x", "X", "8"} |->
     CASE c = "s" -> 115 [] c = "S" -> 83 [] c = "3" -> 51
       [] c = "n" -> 110 [] c = "N" -> 78 [] c = "." -> 46
       [] c = "d" -> 100 [] c = "D" -> 68 [] c = "$" -> 36
       [] c = "i" -> 105 [] c = "I" -> 73 [] c = ")" -> 41
       [] c = "t" -> 116 [] c = "T" -> 84 [] c = "4" -> 52
       [] c = "x" -> 120 [] c = "X" -> 88 [] c = "8" -> 56]

FromCharCode(code) == CHOOSE c \in DOMAIN CharCode : CharCode[c] = code

\* capitalize(s): the first code unit lowered by 32, whatever the character
Capitalize(s) == Str(FromCharCode(CharCode[s.head] - 32), s.tail)

\* Backgrid[name + suffix]: the classes the module exports under the names
\* that end in Cell and in Formatter
Backgrid(name, suffix) ==
  LET cells == {Str("S", "tring"), Str("U", "ri"), Str("E", "mail"),
                Str("N", "umber"), Str("I", "nteger"), Str("D", "atetime"),
                Str("D", "ate"), Str("T", "ime"), Str("B", "oolean"),
                Str("S", "elect"), Str("H", "eader")}
      formatters == {Str("N", "umber"), Str("D", "atetime")}
  IN  IF \/ suffix = "Cell" /\ name \in cells
         \/ suffix = "Formatter" /\ name \in formatters
      THEN [t |-> "class", head |-> name.head, tail |-> name.tail,
            suffix |-> suffix]
      ELSE JsUndefined

----------------------------------------------------------------------------
(* Column *)

\* Column.defaults, for the attributes that initialize reads
ColumnDefaults ==
  [cell |-> JsNull, formatter |-> JsNull, name |-> JsNull, label |-> JsNull]

\* Backbone.Model's constructor: the defaults extended with the attributes
\* given; an attribute that is not given is JsUndefined in attrs
ModelAttributes(defaults, attrs) ==
  [k \in DOMAIN defaults |->
     IF IsUndefined(attrs[k]) THEN defaults[k] ELSE attrs[k]]

\* Column.initialize, after the constructor set the attributes: the column's
\* attributes, or the error thrown
ColumnInitialize(attrs) ==
  LET given == ModelAttributes(ColumnDefaults, attrs)
      this == IF given.label = JsNull
              THEN [given EXCEPT !.label = given.name] ELSE given
  IN  IF ~Truthy(attrs.cell) THEN Thrown("Error")
      ELSE IF ~Truthy(attrs.name) THEN Thrown("Error")
      ELSE IF attrs.cell.t = "string"
           THEN LET cellClass == Backgrid(Capitalize(this.cell), "Cell")
                IN  IF IsUndefined(cellClass) THEN Thrown("ReferenceError")
                    ELSE Returned([this EXCEPT !.cell = cellClass])
           ELSE Returned([this EXCEPT !.cell = attrs.cell])

\* the names a caller may give for a cell type or a formatter
TypeNames ==
  {Str("s", "tring"), Str("S", "tring"), Str("n", "umber"), Str("N", "umber"),
   Str("i", "nteger"), Str("d", "atetime"), Str("d", "ate"), Str("t", "ime"),
   Str("x", "yz")}

\* the attributes a caller may give to new Column
ColumnAttrs ==
  [cell : {JsUndefined, JsNull, EmptyString, Class("StringCell")}
            \cup TypeNames,
   formatter : {JsUndefined, Str("n", "umber"), Object("formatter")},
   name : {JsUndefined, JsNull, EmptyString, Str("a", ""), Str("i", "d")},
   label : {JsUndefined, Str("L", "abel")}]

----------------------------------------------------------------------------
(* Formatter constructors *)

\* an option that the caller left out
Omitted == "undefined"

\* the range check of the NumberFormatter constructor
DecimalsOutOfRangeStrict(decimals) == decimals <= 0 \/ decimals >= 20

DecimalsOutOfRange(decimals) == decimals < 0 \/ decimals > 20

\* NumberFormatter.prototype.defaults
NumberDefaults == [decimals |-> 2, decimalSeparator |-> ".", orderSeparator |-> ","]

\* new NumberFormatter(options): the defaults extended with the options
NumberFormatterNew(options) ==
  LET this == [t |-> "NumberFormatter",
               decimals |-> IF IsUndefined(options.decimals)
                            THEN NumberDefaults.decimals
                            ELSE options.decimals.n,
               decimalSeparator |-> IF options.decimalSeparator = Omitted
                                    THEN NumberDefaults.decimalSeparator
                                    ELSE options.decimalSeparator,
               orderSeparator |-> IF options.orderSeparator = Omitted
                                  THEN NumberDefaults.orderSeparator
                                  ELSE options.orderSeparator]
  IN  IF DecimalsOutOfRange(this.decimals) THEN Thrown("RangeError")
      ELSE Returned(this)

\* DatetimeFormatter.prototype.defaults
DatetimeDefaults == [includeDate |-> TRUE, includeTime |-> TRUE, includeMilli |-> FALSE]

\* the test of the constructor with one flag enough to fail
NeitherIncludedEither(this) == ~this.includeDate \/ ~this.includeTime

\* !this.includeDate && !this.includeTime
NeitherIncluded(this) == ~this.includeDate /\ ~this.includeTime

\* new DatetimeFormatter(options): the defaults, then the options given
DatetimeFormatterNew(options) ==
  LET Extended(key) == IF key \in DOMAIN options THEN options[key]
                       ELSE DatetimeDefaults[key]
      this == [t |-> "DatetimeFormatter",
               includeDate |-> Extended("includeDate"),
               includeTime |-> Extended("includeTime"),
               includeMilli |-> Extended("includeMilli")]
  IN  IF NeitherIncluded(this) THEN Thrown("Error")
      ELSE Returned(this)

\* the options a caller may give to new DatetimeFormatter: any of the three,
\* or none
DatetimeOptions ==
  UNION {[keys -> BOOLEAN] :
           keys \in SUBSET {"includeDate", "includeTime", "includeMilli"}}

\* the options a caller may give to new NumberFormatter
NumberOptions ==
  [decimals : {JsUndefined} \cup {Num(n) : n \in -2..22},
   decimalSeparator : {Omitted, ".", ","},
   orderSeparator : {Omitted, ",", ".", " "}]

----------------------------------------------------------------------------
(* Cell construction *)

\* the built-in cell classes with a formatter of their own kind
BuiltinCells ==
  {"Cell", "StringCell", "NumberCell", "IntegerCell",
   "DatetimeCell", "DateCell", "TimeCell"}

\* the formatter on the prototype of the cell class
PrototypeFormatter(cellType) ==
  IF cellType = "StringCell" THEN Object("StringCell.formatter")
  ELSE Object("Formatter")

\* Cell.initialize: the formatter of the new cell, or the error thrown
CellInitialize(cellType, options, col) ==
  LET chosen == Or(options.formatter,
                   Or(col.formatter, PrototypeFormatter(cellType)))
  IN  IF chosen.t = "string"
      THEN LET class == Backgrid(Capitalize(chosen), "Formatter")
           IN  IF IsUndefined(class) THEN Thrown("ReferenceError")
               ELSE IF class.head = "N"
                    THEN NumberFormatterNew(
                           [decimals |-> JsUndefined,
                            decimalSeparator |-> Omitted,
                            orderSeparator |-> Omitted])
                    ELSE DatetimeFormatterNew(DatetimeDefaults)
      ELSE Returned(chosen)

\* NumberCell.initialize, which IntegerCell inherits with decimals 0
NumberCellInitialize(cellType, options, col) ==
  LET base == CellInitialize(cellType, options, col)
      decimals == IF IsUndefined(options.decimals)
                  THEN IF cellType = "IntegerCell" THEN Num(0)
                       ELSE Num(NumberDefaults.decimals)
                  ELSE options.decimals
  IN  IF base.kind = "thrown" THEN base
      ELSE IF Truthy(options.formatter) THEN Returned(options.formatter)
      ELSE IF Truthy(col.formatter) THEN Returned(col.formatter)
      ELSE NumberFormatterNew([decimals |-> decimals,
                               decimalSeparator |-> NumberDefaults.decimalSeparator,
                               orderSeparator |-> NumberDefaults.orderSeparator])

\* DatetimeCell.initialize, which DateCell inherits with includeTime false
\* and TimeCell with includeDate false
DatetimeCellInitialize(cellType, options, col) ==
  LET base == CellInitialize(cellType, options, col)
  IN  IF base.kind = "thrown" THEN base
      ELSE IF Truthy(options.formatter) THEN Returned(options.formatter)
      ELSE IF Truthy(col.formatter) THEN Returned(col.formatter)
      ELSE DatetimeFormatterNew(
             [includeDate |-> cellType # "TimeCell",
              includeTime |-> cellType # "DateCell",
              includeMilli |-> DatetimeDefaults.includeMilli])

\* new cellType(options) with options.column = col
CellNew(cellType, options, col) ==
  IF cellType \in {"NumberCell", "IntegerCell"}
  THEN NumberCellInitialize(cellType, options, col)
  ELSE IF cellType \in {"DatetimeCell", "DateCell", "TimeCell"}
       THEN DatetimeCellInitialize(cellType, options, col)
       ELSE CellInitialize(cellType, options, col)

\* a formatter given in the options of a cell or in its column
FormattersGiven ==
  {Object("formatter"), Str("n", "umber"), Str("N", "umber"),
   Str("d", "atetime"), Str("x", "yz")}

----------------------------------------------------------------------------
(* Constructions *)

\* no cell is being edited
NoCellEdited ==
  /\ column = [cell |-> "Cell", editable |-> FALSE]
  /\ validate = "none"
  /\ model = <<>>
  /\ editors = [i \in 1..MaxEditors |-> NoEditor]
  /\ made = 0
  /\ cell = [formatter |-> DefaultFormatter(column.cell),
             delegated |-> TRUE,
             subs |-> <<>>,
             content |-> [text |-> <<>>, kind |-> "text", ed |-> 0],
             classes |-> {},
             currentEditor |-> 0]
  /\ trace = <<>>
  /\ thrown = FALSE

\* the call of fn with arg ended with outcome
Called(fn, arg, outcome) ==
  /\ call' = [fn |-> fn, after |-> <<>>, arg |-> arg, outcome |-> outcome]
  /\ UNCHANGED <<theFormatter, timezone>>
  /\ UNCHANGED <<cellVars, sortVars>>

\* new Column(attrs)
NewColumn ==
  \E attrs \in ColumnAttrs :
    Called("Column", attrs, ColumnInitialize(attrs))

\* new NumberFormatter(options)
NewNumberFormatter ==
  \E options \in NumberOptions :
    Called("NumberFormatter", options, NumberFormatterNew(options))

\* new DatetimeFormatter(options)
NewDatetimeFormatter ==
  \E options \in DatetimeOptions :
    Called("DatetimeFormatter", options, DatetimeFormatterNew(options))

\* new cellType({column: col, formatter: ..., decimals: ...})
NewCell ==
  \E cellType \in BuiltinCells,
     options \in [formatter : {JsUndefined} \cup FormattersGiven,
                  decimals : {JsUndefined, Num(0)}],
     col \in [formatter : {JsNull, Object("columnFormatter")} \cup FormattersGiven] :
    Called("Cell", [column |-> col, options |-> options, type |-> cellType],
           CellNew(cellType, options, col))

ConstructInit ==
  /\ call = <<>>
  /\ theFormatter = <<>>
  /\ timezone = 0
  /\ NoCellEdited
  /\ NoGrid

ConstructNext ==
  \/ NewColumn
  \/ NewNumberFormatter
  \/ NewDatetimeFormatter
  \/ NewCell

ConstructSpec == ConstructInit /\ [][ConstructNext]_vars

----------------------------------------------------------------------------
(* Numbers, strings of characters, and the conversions between them *)

\* length of a text given to toRaw, and the greatest decimals of a formatter
MaxText == 3
MaxDecimals == 2

\* a finite number is a count of thousandths; NaN and the infinities are not
Dec(milli) == [t |-> "number", milli |-> milli]
NaN == [t |-> "NaN", milli |-> 0]
Infinity(sign) == [t |-> "Infinity", milli |-> sign]

\* a string as the sequence of its characters
Text(chars) == [t |-> "string", chars |-> chars]

Thousand == 10 * 10 * 10

RECURSIVE Pow10(_)
Pow10(e) == IF e = 0 THEN 1 ELSE 10 * Pow10(e - 1)

Numerals == <<"0", "1", "2", "3", "4", "5", "6", "7", "8", "9">>
IsNumeral(c) == \E i \in DOMAIN Numerals : Numerals[i] = c
AllNumerals(s) == \A i \in DOMAIN s : IsNumeral(s[i])

\* the number a sequence of digits denotes in the base
RECURSIVE NumeralValue(_, _)
NumeralValue(s, base) ==
  IF s = <<>> THEN 0
  ELSE NumeralValue(SubSeq(s, 1, Len(s) - 1), base) * base
         + (CHOOSE i \in DOMAIN Numerals : Numerals[i] = s[Len(s)]) - 1

\* the decimal digits of a natural number
NumeralOf(n) == [i \in DOMAIN Digits(n) |-> Numerals[Digits(n)[i] + 1]]

\* String.prototype.split for a separator of one character or none
SplitNever(s, separator) == <<s>>

RECURSIVE Split(_, _)
Split(s, separator) ==
  IF separator = "" THEN [i \in DOMAIN s |-> <<s[i]>>]
  ELSE LET at == {i \in DOMAIN s : s[i] = separator}
       IN  IF at = {} THEN <<s>>
           ELSE LET i == CHOOSE i \in at : \A j \in at : i <= j
                IN  <<SubSeq(s, 1, i - 1)>>
                      \o Split(SubSeq(s, i + 1, Len(s)), separator)

\* the parts one after the other, each followed by the glue
RECURSIVE Concat(_, _)
Concat(parts, glue) ==
  IF parts = <<>> THEN <<>>
  ELSE Head(parts) \o glue \o Concat(Tail(parts), glue)

\* trim(s) of a string: without the spaces at its ends
Trim(s) ==
  LET inked == {i \in DOMAIN s : s[i] # " "}
  IN  IF inked = {} THEN <<>>
      ELSE SubSeq(s, CHOOSE i \in inked : \A j \in inked : i <= j,
                     CHOOSE i \in inked : \A j \in inked : i >= j)

\* 1 * s, the conversion of a string to a number: the empty string is 0,
\* then Infinity, a hexadecimal integer, a decimal with at most three
\* decimals; whatever else is NaN.  No string here has an exponent.
ToNumber(s) ==
  LET body == Trim(s)
      signed == body # <<>> /\ Head(body) \in {"+", "-"}
      sign == IF signed /\ Head(body) = "-" THEN -1 ELSE 1
      rest == IF signed THEN Tail(body) ELSE body
      parts == Split(rest, ".")
      whole == parts[1]
      decimals == IF Len(parts) = 2 THEN parts[2] ELSE <<>>
  IN  IF body = <<>> THEN Dec(0)
      ELSE IF rest = <<"I", "n", "f", "i", "n", "i", "t", "y">>
      THEN Infinity(sign)
      ELSE IF /\ ~signed /\ Len(rest) > 2
              /\ rest[1] = "0" /\ rest[2] = "x"
              /\ AllNumerals(SubSeq(rest, 3, Len(rest)))
      THEN Dec(Thousand * NumeralValue(SubSeq(rest, 3, Len(rest)), 16))
      ELSE IF /\ Len(parts) <= 2
              /\ AllNumerals(whole) /\ AllNumerals(decimals)
              /\ Len(whole) + Len(decimals) > 0
      THEN Dec(sign * (Thousand * NumeralValue(whole, 10)
                        + NumeralValue(SubSeq(decimals \o <<"0", "0", "0">>, 1, 3), 10)))
      ELSE NaN

\* whether the double nearest to the number is the number itself
IsExact(milli) == milli % (Thousand \div 8) = 0

\* number.toFixed(digits): the nearest multiple of 10^-digits, the larger of
\* the two when the double is half-way; a decimal that is half-way but is not
\* a double lies on either side, which up decides
ToFixed(number, digits, up) ==
  IF number.t = "NaN" THEN <<"N", "a", "N">>
  ELSE IF number.t = "Infinity"
  THEN (IF number.milli < 0 THEN <<"-">> ELSE <<>>)
         \o <<"I", "n", "f", "i", "n", "i", "t", "y">>
  ELSE
    LET x == IF number.milli < 0 THEN -number.milli ELSE number.milli
        unit == Pow10(3 - digits)
        n == IF digits >= 3 THEN x * Pow10(digits - 3)
             ELSE IF \/ 2 * (x % unit) > unit
                     \/ 2 * (x % unit) = unit /\ (IsExact(x) \/ up)
                  THEN (x \div unit) + 1
                  ELSE x \div unit
        m == IF Len(NumeralOf(n)) > digits THEN NumeralOf(n)
             ELSE [i \in 1..(digits + 1 - Len(NumeralOf(n))) |-> "0"]
                    \o NumeralOf(n)
        k == Len(m) - digits
    IN  (IF number.milli < 0 THEN <<"-">> ELSE <<>>)
          \o SubSeq(m, 1, k)
          \o (IF digits > 0 THEN <<".">> \o SubSeq(m, k + 1, Len(m)) ELSE <<>>)

----------------------------------------------------------------------------
(* NumberFormatter *)

\* isNaN(v): whether the conversion of v to a number is NaN
IsNaN(v) ==
  CASE v.t = "undefined" -> TRUE
    [] v.t = "string" -> ToNumber(v.chars) = NaN
    [] OTHER -> v.t = "NaN"

HumanizeByTwo(integerPart, orderSeparator) ==
  Concat([i \in DOMAIN integerPart |->
            IF IsNumeral(integerPart[i]) /\ (Len(integerPart) - i) % 2 = 0
                 /\ i < Len(integerPart)
            THEN <<integerPart[i], orderSeparator>> ELSE <<integerPart[i]>>],
         <<>>)

\* integerPart.replace(HUMANIZED_NUM_RE, "$1" + orderSeparator): the separator
\* after each digit that a positive multiple of three digits follows to the end
Humanize(integerPart, orderSeparator) ==
  Concat([i \in DOMAIN integerPart |->
            LET rest == SubSeq(integerPart, i + 1, Len(integerPart))
            IN  IF /\ IsNumeral(integerPart[i])
                   /\ AllNumerals(rest) /\ rest # <<>> /\ Len(rest) % 3 = 0
                THEN <<integerPart[i]>>
                       \o (IF orderSeparator = "" THEN <<>> ELSE <<orderSeparator>>)
                ELSE <<integerPart[i]>>],
         <<>>)

\* NumberFormatter.fromRaw
NumberFromRaw(this, number, up) ==
  IF IsNaN(number) \/ number = JsNull THEN Returned(<<>>)
  ELSE IF number.t \notin {"number", "Infinity"} THEN Thrown("TypeError")
  ELSE LET fixed == ToFixed(number, this.decimals, up)
           parts == Split(fixed, ".")
           decimalPart == IF Len(parts) > 1 /\ parts[2] # <<>>
                          THEN <<IF this.decimalSeparator # ""
                                 THEN this.decimalSeparator ELSE ".">> \o parts[2]
                          ELSE <<>>
       IN  Returned(Humanize(parts[1], this.orderSeparator) \o decimalPart)

\* NumberFormatter.toRaw of a string
NumberToRaw(this, formattedData, up) ==
  LET thousands == Split(Trim(formattedData), this.orderSeparator)
      joined == Concat(thousands, <<>>)
      decimalParts == Split(joined, this.decimalSeparator)
      dotted == Concat(decimalParts, <<".">>)
      rawData == IF dotted # <<>> /\ dotted[Len(dotted)] = "."
                 THEN SubSeq(dotted, 1, Len(dotted) - 1) ELSE dotted
      result == ToNumber(ToFixed(ToNumber(rawData), this.decimals, up))
  IN  IF result # NaN THEN Returned(result) ELSE Returned(JsUndefined)

\* the formatters under test: their separators differ
NumberFormatters ==
  {NumberFormatterNew(options).value :
     options \in {o \in [decimals : {Num(d) : d \in 0..MaxDecimals},
                         decimalSeparator : {".", ","},
                         orderSeparator : {",", ".", " ", "-", ""}] :
                    o.decimalSeparator # o.orderSeparator}}

\* raw values of a model attribute: numbers (in thousandths) and the rest
RawValues ==
  {Dec(k) : k \in {0, 1, -1, 125, 500, -500, 1005, 2675, 3700, -3700,
                   999500, 999999, 1234500, -1234500, 123456789,
                   -123456789, 1234567891}}
    \cup {NaN, Infinity(1), Infinity(-1), JsNull, JsUndefined,
          Text(<<"1", "2">>), Text(<<"1", ".", "5">>), Text(<<"x">>),
          Text(<<>>)}

\* the texts a user may type in the editor of a number cell
NumberTexts ==
  UNION {[1..n -> {"0", "1", "5", ".", ",", "-", "x"}] : n \in 0..MaxText}
    \cup {<<"1", "2", "x", "3">>, <<"1", ".", "2", ".", "3">>,
          <<"I", "n", "f", "i", "n", "i", "t", "y">>,
          <<"1", ",", "2", "3", "4", ".", "5", "0">>,
          <<" ", "1", ".", "5", " ">>,
          <<"1", " ", "2", "3", "4", ",", "5">>}

\* the call of fn with the result of the call before it
CalledAfter(fn, arg, outcome) ==
  /\ call' = [fn |-> fn, after |-> call, arg |-> arg, outcome |-> outcome]
  /\ UNCHANGED <<theFormatter, timezone>>
  /\ UNCHANGED <<cellVars, sortVars>>

\* formatter.fromRaw(number), as Cell.render calls it
FromRawCall ==
  \E number \in RawValues, up \in BOOLEAN :
    /\ call = <<>>
    /\ Called("fromRaw", number, NumberFromRaw(theFormatter, number, up))

\* formatter.toRaw(text), as the editor calls it on a commit
ToRawCall ==
  \E text \in NumberTexts, up \in BOOLEAN :
    /\ call = <<>>
    /\ Called("toRaw", text, NumberToRaw(theFormatter, text, up))

\* formatter.toRaw of the text that fromRaw returned
ToRawBack ==
  \E up \in BOOLEAN :
    /\ call # <<>> /\ call.fn = "fromRaw" /\ call.outcome.kind = "returned"
    /\ CalledAfter("toRaw", call.outcome.value,
                   NumberToRaw(theFormatter, call.outcome.value, up))

NumberInit ==
  /\ theFormatter \in NumberFormatters
  /\ timezone = 0
  /\ call = <<>>
  /\ NoCellEdited
  /\ NoGrid

NumberNext ==
  \/ FromRawCall
  \/ ToRawCall
  \/ ToRawBack

NumberSpec == NumberInit /\ [][NumberNext]_vars

----------------------------------------------------------------------------
(* Dates: a time value is a day, counted from 1970-01-01, and the
   milliseconds into that day *)

MsPerMinute == 60 * Thousand
MsPerDay == 24 * 60 * MsPerMinute

\* the day on which the month (1..12) of the year begins, in the Gregorian
\* calendar extended to all years
DayFromYearMonth(year, month) ==
  LET y == IF month <= 2 THEN year - 1 ELSE year
      era == y \div 400
      yoe == y - era * 400
      doy == (153 * (IF month > 2 THEN month - 3 ELSE month + 9) + 2) \div 5
      doe == yoe * 365 + yoe \div 4 - yoe \div 100 + doy
  IN  era * 146097 + doe - 719468

\* the year, month (1..12) and date of a day
YearMonthDate(day) ==
  LET z == day + 719468
      era == z \div 146097
      doe == z - era * 146097
      yoe == (doe - doe \div 1460 + doe \div 36524 - doe \div 146096) \div 365
      doy == doe - (365 * yoe + yoe \div 4 - yoe \div 100)
      mp == (5 * doy + 2) \div 153
      month == IF mp < 10 THEN mp + 3 ELSE mp - 9
  IN  [year |-> yoe + era * 400 + (IF month <= 2 THEN 1 ELSE 0),
       month |-> month,
       date |-> doy - (153 * mp + 2) \div 5 + 1]

\* ToIntegerOrInfinity of a finite number of thousandths
ToInteger(milli) ==
  IF milli < 0 THEN -((-milli) \div Thousand) ELSE milli \div Thousand

\* Date.UTC(year, month, date, hours, minutes, seconds, ms), each argument a
\* finite number of thousandths: years 0 to 99 are 1900 to 1999, and every
\* field past its range carries into the next
DateUTC(year, month, date, hours, minutes, seconds, ms) ==
  LET y == ToInteger(year)
      full == IF 0 <= y /\ y <= 99 THEN 1900 + y ELSE y
      m == ToInteger(month)
      day == DayFromYearMonth(full + (m \div 12), (m % 12) + 1)
               + ToInteger(date) - 1
      time == ToInteger(hours) * 60 * MsPerMinute
                + ToInteger(minutes) * MsPerMinute
                + ToInteger(seconds) * Thousand + ToInteger(ms)
  IN  [ms |-> time % MsPerDay, day |-> day + time \div MsPerDay]

\* the time value so many minutes later
Shifted(jsDate, minutes) ==
  LET time == jsDate.ms + minutes * MsPerMinute
  IN  [ms |-> time % MsPerDay, day |-> jsDate.day + time \div MsPerDay]

\* getUTCFullYear() and the other getters of UTC fields
UTCFields(jsDate) ==
  LET ymd == YearMonthDate(jsDate.day)
  IN  [month |-> ymd.month - 1,
       date |-> ymd.date,
       hours |-> jsDate.ms \div (60 * MsPerMinute),
       minutes |-> (jsDate.ms \div MsPerMinute) % 60,
       seconds |-> (jsDate.ms \div Thousand) % 60,
       fullYear |-> ymd.year,
       milliseconds |-> jsDate.ms % Thousand]

\* getFullYear() and the other getters of local fields
LocalFields(jsDate, zone) == UTCFields(Shifted(jsDate, zone))

----------------------------------------------------------------------------
(* DatetimeFormatter *)

\* str + "" of an integer
IntegerText(n) == IF n < 0 THEN <<"-">> \o NumeralOf(-n) ELSE NumeralOf(n)

\* lpad(str, length, 0)
Lpad(str, length) ==
  LET paddingLen == IF length - Len(IntegerText(str)) < 0 THEN 0
                    ELSE length - Len(IntegerText(str))
  IN  [i \in 1..paddingLen |-> "0"] \o IntegerText(str)

\* whether the n characters from the i-th on are digits
DigitsAt(s, i, n) ==
  /\ i + n - 1 <= Len(s)
  /\ AllNumerals(SubSeq(s, i, i + n - 1))

\* RegExp.prototype.exec: the match and its groups, or none for null || [];
\* of undefined the text is "undefined", which no expression here matches
DATE_RE(date) ==
  IF date.t # "string" THEN <<>>
  ELSE LET s == date.chars
           k == IF s # <<>> /\ s[1] \in {"+", "-"} THEN 1 ELSE 0
       IN  IF /\ Len(s) = k + 10
              /\ DigitsAt(s, k + 1, 4) /\ s[k + 5] = "-"
              /\ DigitsAt(s, k + 6, 2) /\ s[k + 8] = "-"
              /\ DigitsAt(s, k + 9, 2)
           THEN <<Text(s), Text(SubSeq(s, 1, k + 4)),
                  Text(SubSeq(s, k + 6, k + 7)),
                  Text(SubSeq(s, k + 9, k + 10))>>
           ELSE <<>>

TIME_RE(time) ==
  IF time.t # "string" THEN <<>>
  ELSE LET s == time.chars
       IN  IF /\ Len(s) \in {8, 12}
              /\ DigitsAt(s, 1, 2) /\ s[3] = ":"
              /\ DigitsAt(s, 4, 2) /\ s[6] = ":"
              /\ DigitsAt(s, 7, 2)
              /\ Len(s) = 12 => s[9] = "." /\ DigitsAt(s, 10, 3)
           THEN <<Text(s), Text(SubSeq(s, 1, 2)), Text(SubSeq(s, 4, 5)),
                  Text(SubSeq(s, 7, 8))>>
                  \o (IF Len(s) = 12 THEN <<Text(SubSeq(s, 9, 12))>>
                      ELSE <<>>)
           ELSE <<>>

ZONE_RE(zone) ==
  IF zone.t # "string" THEN <<>>
  ELSE LET s == zone.chars
           k == IF Len(s) = 6 THEN 1 ELSE 0
       IN  IF /\ Len(s) \in {5, 6}
              /\ s[1] \in {"+", "-"} /\ DigitsAt(s, 2, 2)
              /\ k = 1 => s[4] = ":"
              /\ DigitsAt(s, 4 + k, 2)
           THEN <<Text(s), Text(SubSeq(s, 1, 3)),
                  Text(SubSeq(s, 4 + k, 5 + k))>>
           ELSE <<>>

\* rawData.split(this.ISO_SPLITTER_RE): at every T, every Z and every run of
\* spaces
RECURSIVE ISO_SPLITTER(_)
ISO_SPLITTER(s) ==
  LET at == {i \in DOMAIN s : s[i] \in {"T", "Z", " "}}
  IN  IF at = {} THEN <<s>>
      ELSE LET i == CHOOSE i \in at : \A j \in at : i <= j
               after == {j \in i + 1..Len(s) + 1 :
                           \A k \in i + 1..j - 1 : s[k] = " "}
               next == IF s[i] = " "
                       THEN CHOOSE j \in after : \A k \in after : j >= k
                       ELSE i + 1
           IN  <<SubSeq(s, 1, i - 1)>>
                 \o ISO_SPLITTER(SubSeq(s, next, Len(s)))

\* array[i] of a JavaScript array, whose first index is 0
At(array, i) ==
  IF i + 1 \in DOMAIN array THEN array[i + 1] ELSE JsUndefined

\* 1 * x || 0 and 1 * x || null + 0, in thousandths
TimesOne(x) ==
  IF x.t # "string" \/ ToNumber(x.chars).t # "number" THEN 0
  ELSE ToNumber(x.chars).milli

\* v || "" of a string or undefined
OrEmpty(v) == IF v.t = "string" /\ v.chars # <<>> THEN v ELSE Text(<<>>)

\* the parts date, time and zone of the text, as fromRaw and toRaw take them
DatetimeParts(this, chars) ==
  LET split == ISO_SPLITTER(Trim(chars))
      parts == [i \in DOMAIN split |-> Text(split[i])]
  IN  [date |-> IF this.includeDate THEN At(parts, 0) ELSE Text(<<>>),
       time |-> IF this.includeDate THEN At(parts, 1)
                ELSE OrEmpty(At(parts, 0)),
       zone |-> IF this.includeDate THEN At(parts, 2)
                ELSE OrEmpty(At(parts, 1))]

\* Date.UTC of the groups matched, the zone added to the hours and minutes
DatetimeUTC(YYYYMMDD, HHmmssSSS, zzZZ) ==
  DateUTC(TimesOne(At(YYYYMMDD, 1)),
          IF At(YYYYMMDD, 2).t = "string"
          THEN TimesOne(At(YYYYMMDD, 2)) - Thousand ELSE 0,
          TimesOne(At(YYYYMMDD, 3)),
          TimesOne(At(HHmmssSSS, 1)) + TimesOne(At(zzZZ, 1)),
          TimesOne(At(HHmmssSSS, 2)) + TimesOne(At(zzZZ, 2)),
          TimesOne(At(HHmmssSSS, 3)),
          TimesOne(At(HHmmssSSS, 4)))

\* the date, the time and the milliseconds as text, between them the mark
\* of the time and after them the mark of the zone
DatetimeText(this, fields, timeMark, zoneMark) ==
  (IF this.includeDate
   THEN Lpad(fields.fullYear, 4) \o <<"-">> \o Lpad(fields.month + 1, 2)
          \o <<"-">> \o Lpad(fields.date, 2)
   ELSE <<>>)
    \o (IF this.includeTime
        THEN timeMark \o Lpad(fields.hours, 2) \o <<":">>
               \o Lpad(fields.minutes, 2) \o <<":">>
               \o Lpad(fields.seconds, 2)
               \o (IF this.includeMilli
                   THEN <<".">> \o Lpad(fields.milliseconds, 3) ELSE <<>>)
               \o zoneMark
        ELSE <<>>)

\* DatetimeFormatter.fromRaw: trim throws for null and undefined
DatetimeFromRaw(this, rawData, zone) ==
  IF rawData.t # "string" THEN Thrown("TypeError")
  ELSE LET parts == DatetimeParts(this, rawData.chars)
           jsDate == DatetimeUTC(DATE_RE(parts.date), TIME_RE(parts.time),
                                 ZONE_RE(parts.zone))
       IN  Returned(Text(DatetimeText(this, LocalFields(jsDate, zone),
                                      <<" ">>, <<>>)))

\* DatetimeFormatter.toRaw
DatetimeToRaw(this, formattedData, zone) ==
  IF formattedData.t # "string" THEN Thrown("TypeError")
  ELSE LET parts == DatetimeParts(this, formattedData.chars)
           YYYYMMDD == DATE_RE(parts.date)
           HHmmssSSS == TIME_RE(parts.time)
           zzZZ == ZONE_RE(parts.zone)
           jsDate ==
             IF zzZZ # <<>>
             THEN DatetimeUTC(YYYYMMDD, HHmmssSSS, zzZZ)
             \* new Date(year, month, ...) reads the fields as local ones
             ELSE Shifted(DatetimeUTC(YYYYMMDD, HHmmssSSS, <<>>), -zone)
       IN  IF \/ this.includeDate /\ YYYYMMDD = <<>>
              \/ this.includeTime /\ HHmmssSSS = <<>>
              \/ ~this.includeDate /\ parts.date # Text(<<>>)
              \/ ~this.includeTime /\ OrEmpty(parts.time) # Text(<<>>)
           THEN Returned(JsUndefined)
           ELSE Returned(Text(DatetimeText(
                  this, UTCFields(jsDate),
                  IF this.includeDate THEN <<"T">> ELSE <<>>,
                  IF this.includeDate THEN <<"Z">> ELSE <<>>)))

\* the formatters under test: every valid configuration
DatetimeFormatters ==
  {o \in [t : {"DatetimeFormatter"}, includeDate : BOOLEAN,
          includeTime : BOOLEAN, includeMilli : BOOLEAN] :
     o.includeDate \/ o.includeTime}

\* the local time zones of the runtime: minutes east of UTC, without
\* daylight saving
Timezones == {-(8 * 60), 0, 5 * 60 + 30}

\* the dates, times and offsets of the raw values, as numbers
SomeDates == {<<2012, 2, 29>>, <<1999, 12, 31>>, <<2000, 1, 1>>}
SomeTimes == {<<0, 0, 0>>, <<5, 30, 0>>, <<10, 0, 0>>, <<23, 59, 59>>}
SomeOffsets == {<<"+", 5, 30>>, <<"-", 8, 0>>, <<"+", 0, 0>>, <<"-", 3, 30>>}

DateText(d) ==
  Lpad(d[1], 4) \o <<"-">> \o Lpad(d[2], 2) \o <<"-">> \o Lpad(d[3], 2)
TimeText(h) ==
  Lpad(h[1], 2) \o <<":">> \o Lpad(h[2], 2) \o <<":">> \o Lpad(h[3], 2)
OffsetText(z) == <<z[1]>> \o Lpad(z[2], 2) \o <<":">> \o Lpad(z[3], 2)

\* ISO-8601 texts of a date, a time and an offset, or Z, or no zone
WithOffset ==
  {DateText(d) \o <<"T">> \o TimeText(h) \o OffsetText(z) :
     d \in SomeDates, h \in SomeTimes, z \in SomeOffsets}
WithZ ==
  {DateText(d) \o <<"T">> \o TimeText(h) \o milli \o <<"Z">> :
     d \in SomeDates, h \in SomeTimes, milli \in {<<>>, <<".", "1", "2", "3">>}}
WithoutZone ==
  {DateText(d) \o mark \o TimeText(h) \o zone :
     d \in {<<2012, 2, 29>>}, h \in {<<10, 0, 0>>, <<23, 59, 59>>},
     mark \in {<<"T">>, <<" ">>},
     zone \in {<<>>, <<" ", "+", "0", "5", ":", "3", "0">>,
               <<".", "1", "2", "3">>}}
Partial ==
  {DateText(d) : d \in SomeDates} \cup {TimeText(h) : h \in SomeTimes}
Malformed ==
  {<<>>, <<" ", " ">>, <<"x">>, <<"T", "Z">>,
   <<"2", "0", "1", "2", "-", "2", "-", "2", "9">>,
   <<"1", "0", ":", "0", "0">>}

\* texts whose parts are out of place, whose year is signed or is the last
\* of four digits, and texts with a part that is none of date, time and zone
Unusual ==
  {TimeText(<<10, 0, 0>>) \o <<" ">> \o DateText(<<2012, 2, 29>>),
   DateText(<<2012, 2, 29>>) \o <<"T", "T">> \o TimeText(<<10, 0, 0>>),
   DateText(<<2012, 2, 29>>) \o <<" ", "x">>,
   DateText(<<2012, 2, 29>>) \o <<" ">> \o TimeText(<<10, 0, 0>>)
     \o <<" ", "x">>,
   DateText(<<9999, 12, 31>>) \o <<" ">> \o TimeText(<<23, 59, 59>>),
   DateText(<<9999, 12, 31>>)}
    \cup {<<sign>> \o DateText(<<1, 1, 1>>) \o time :
            sign \in {"+", "-"},
            time \in {<<>>, <<" ">> \o TimeText(<<10, 0, 0>>)}}

\* the raw values given to fromRaw, and the texts given to toRaw
RawDatetimes ==
  {Text(s) : s \in WithOffset \cup WithZ \cup WithoutZone \cup Partial
                     \cup Malformed}
    \cup {JsNull, JsUndefined}
DatetimeTexts ==
  {Text(s) : s \in WithoutZone \cup Partial \cup Malformed \cup Unusual}

\* formatter.fromRaw(rawData), as Cell.render calls it
DatetimeFromRawCall ==
  /\ call = <<>>
  /\ \E rawData \in RawDatetimes :
       CalledAfter("fromRaw", rawData,
                   DatetimeFromRaw(theFormatter, rawData, timezone))

\* formatter.toRaw(formattedData), as the cell editor calls it
DatetimeToRawCall ==
  /\ call = <<>>
  /\ \E formattedData \in DatetimeTexts :
       CalledAfter("toRaw", formattedData,
                   DatetimeToRaw(theFormatter, formattedData, timezone))

\* formatter.toRaw(formatter.fromRaw(rawData))
DatetimeToRawBack ==
  /\ call # <<>> /\ call.fn = "fromRaw"
  /\ call.outcome.kind = "returned"
  /\ CalledAfter("toRaw", call.outcome.value,
                 DatetimeToRaw(theFormatter, call.outcome.value, timezone))

DatetimeInit ==
  /\ theFormatter \in DatetimeFormatters
  /\ timezone \in Timezones
  /\ call = <<>>
  /\ NoCellEdited
  /\ NoGrid

DatetimeNext ==
  \/ DatetimeFromRawCall
  \/ DatetimeToRawCall
  \/ DatetimeToRawBack

DatetimeSpec == DatetimeInit /\ [][DatetimeNext]_vars

----------------------------------------------------------------------------
(* The cells of numbers and of datetimes *)

\* the formatter NumberCell.initialize constructs, with the decimals of the
\* class, and the one DatetimeCell.initialize constructs
ConstructedFormatter(formatter) ==
  CASE formatter = "NumberCell.formatter" ->
         NumberFormatterNew([decimals |-> Num(NumberDefaults.decimals),
                             decimalSeparator |-> NumberDefaults.decimalSeparator,
                             orderSeparator |-> NumberDefaults.orderSeparator]).value
    [] formatter = "IntegerCell.formatter" ->
         NumberFormatterNew([decimals |-> Num(0),
                             decimalSeparator |-> NumberDefaults.decimalSeparator,
                             orderSeparator |-> NumberDefaults.orderSeparator]).value
    [] formatter = "DatetimeCell.formatter" ->
         DatetimeFormatterNew(DatetimeDefaults).value

\* this.formatter.fromRaw(rawData) for the text of the cell or of the editor.
\* No raw value and no text of the editor here is a decimal half-way between
\* two results of toFixed that is not a double, so the side makes no
\* difference.
FromRawOutcome(formatter, rawData, zone) ==
  IF formatter = "DatetimeCell.formatter"
  THEN LET outcome == DatetimeFromRaw(ConstructedFormatter(formatter), rawData,
                                      zone)
       IN  IF outcome.kind = "thrown" THEN outcome
           ELSE Returned(outcome.value.chars)
  ELSE NumberFromRaw(ConstructedFormatter(formatter), rawData, TRUE)

\* this.formatter.toRaw(this.$el.text())
ToRawValue(formatter, formattedData, zone) ==
  IF formatter = "DatetimeCell.formatter"
  THEN DatetimeToRaw(ConstructedFormatter(formatter), Text(formattedData),
                     zone).value
  ELSE NumberToRaw(ConstructedFormatter(formatter), formattedData, TRUE).value

\* the raw values stored in the attribute of a cell of the class
StoredValues(cellType) ==
  CASE cellType \in NumberCellTypes ->
         {Dec(1500), Dec(0), NaN, JsNull, JsUndefined,
          Text(<<"1", "2">>), Text(<<"x">>)}
    [] cellType \in DatetimeCellTypes ->
         {Text(<<"2", "0", "1", "2", "-", "0", "2", "-", "2", "9", "T", "1", "0", ":", "0", "0", ":", "0", "0", "Z">>), Text(<<"x">>),
          Text(<<>>), JsNull, JsUndefined}
    [] OTHER -> Texts

\* the graphs of the methods of the formatter, from the outcomes of fromRaw
\* and the values of toRaw
Graph(outcomes, values) ==
  [throws |-> [v \in DOMAIN outcomes |-> outcomes[v].kind = "thrown"],
   fromRaw |-> [v \in DOMAIN outcomes |->
                  IF outcomes[v].kind = "thrown" THEN <<>> ELSE outcomes[v].value],
   toRaw |-> values]

\* The formatter of a cell of the class, over the raw values the attribute
\* of the cell can come to hold and the texts its editor can: the values
\* stored and those toRaw returns, the texts the user leaves and those
\* fromRaw returns.  values is toRaw as far as it is known; the graph is
\* complete when toRaw returns no raw value that fromRaw was not tried on.
RECURSIVE FormatterGraph(_, _, _)
Closed(cellType, zone, outcomes, values) ==
  IF \A text \in DOMAIN values : values[text] \in DOMAIN outcomes
  THEN Graph(outcomes, values)
  ELSE FormatterGraph(cellType, zone, values)

Grown(cellType, zone, outcomes) ==
  Closed(cellType, zone, outcomes,
         [text \in EditorTexts(cellType) \cup
                    {outcomes[v].value :
                       v \in {u \in DOMAIN outcomes :
                                outcomes[u].kind = "returned"}} |->
            ToRawValue(DefaultFormatter(cellType), text, zone)])

FormatterGraph(cellType, zone, values) ==
  IF DefaultFormatter(cellType) \notin ConstructedFormatters THEN <<>>
  ELSE Grown(cellType, zone,
             [v \in StoredValues(cellType) \cup
                      {values[text] : text \in DOMAIN values} |->
                FromRawOutcome(DefaultFormatter(cellType), v, zone)])

\* the validation policies tried with a cell of the class
ValidatorsFor(cellType) ==
  IF cellType \in CellTypes THEN Validators ELSE {"none", "readOnly"}

\* a cell of any of the classes is constructed over a model, and rendered
\* unless the rendering fails
BuiltinCellInit ==
  /\ column \in [cell : CellTypes \cup NumberCellTypes \cup DatetimeCellTypes,
                 editable : BOOLEAN]
  /\ validate \in ValidatorsFor(column.cell)
  /\ model \in StoredValues(column.cell)
  /\ editors = [i \in 1..MaxEditors |-> NoEditor]
  /\ made = 0
  /\ NoGrid
  /\ timezone = 0
  /\ call = <<>>
  /\ theFormatter = FormatterGraph(column.cell, timezone, <<>>)
  /\ trace = <<>>
  /\ thrown = FALSE
  /\ cell = [formatter |-> DefaultFormatter(column.cell),
             delegated |-> TRUE,
             subs |-> <<>>,
             content |-> IF FromRawThrows(DefaultFormatter(column.cell), model)
                         THEN EmptyContent
                         ELSE [text |-> FromRaw(DefaultFormatter(column.cell), model),
                               kind |-> IF column.cell = "EmailCell"
                                        THEN "anchor" ELSE "text",
                               ed |-> 0],
             classes |-> {},
             currentEditor |-> 0]

BuiltinCellSpec == BuiltinCellInit /\ [][Next]_vars

----------------------------------------------------------------------------
(* Body and the events of its collection *)

\* the Body: its collection, its rows and whether the call under way threw
BodyWorld == [thrown |-> FALSE, collection |-> collection, rows |-> rows]

\* the place of the aModel with the cid among the models, from 0
IndexOf(models, cid) ==
  CHOOSE i \in 0..Len(models) - 1 : models[i + 1].cid = cid

\* models.splice(index, 0, aModel) and models.splice(index, 1)
SpliceIn(models, index, aModel) ==
  SubSeq(models, 1, index) \o <<aModel>> \o SubSeq(models, index + 1, Len(models))
SpliceOut(models, index) ==
  SubSeq(models, 1, index) \o SubSeq(models, index + 2, Len(models))

\* Body.insertRow as the callback of "add", options being the options of the
\* event: new self.row(...), and insertRow has no variable self, so it is the
\* global one, the window, which has no row: TypeError
InsertRowOnAdd(b, aModel, index) == [b EXCEPT !.thrown = TRUE]

\* Body.removeRow as the callback of "remove": this.rows[options.index]
\* .remove(), a TypeError when there is no such row, then the splice
RemoveRowOnRemove(b, aModel, index) ==
  IF index + 1 \in DOMAIN b.rows
  THEN [b EXCEPT !.rows = SpliceOut(@, index)]
  ELSE [b EXCEPT !.thrown = TRUE]

\* collection.add(model, {at: at}) of Backbone: the aModel is spliced in at
\* the index (the end when no index is given), the models are sorted when
\* the collection has a comparator, and "add" is triggered with the index of
\* the aModel
CollectionAdd(b, aModel, at) ==
  LET spliced == SpliceIn(b.collection.models, at, aModel)
      orders == IF b.collection.comparator = NoComparator THEN {spliced}
                ELSE ArraySort(spliced, b.collection.comparator)
  IN  {InsertRowOnAdd([b EXCEPT !.collection.models = s], aModel,
                      IndexOf(s, aModel.cid)) : s \in orders}

\* collection.remove(model) of Backbone: the aModel is spliced out and
\* "remove" is triggered with the index it had
CollectionRemove(b, aModel) ==
  LET index == IndexOf(b.collection.models, aModel.cid)
  IN  RemoveRowOnRemove(
        [b EXCEPT !.collection.models = SpliceOut(@, index)], aModel, index)

\* collection.reset(models) of Backbone, which triggers "reset": Body.refresh
CollectionReset(b, models) ==
  BodyRefresh([b EXCEPT !.collection.models = models])

\* Body.insertRow(model, options) called directly: collection.add
InsertRow(b, aModel, at) == CollectionAdd(b, aModel, at)

\* Body.removeRow(model, options) called directly: collection.remove
RemoveRow(b, aModel) == CollectionRemove(b, aModel)

\* the comparators given to Body.sort and those a collection may have
Comparators ==
  {NoComparator} \cup [fn : {"whenAscending", "whenUnsorted"}, col : {"a"}]

\* the cids of the models of the collection and of the rows
CidsInUse ==
  {collection.models[i].cid : i \in DOMAIN collection.models}
    \cup {rows[i] : i \in DOMAIN rows}

\* a aModel that is not in the collection and has no row: the first such
FreshModels ==
  [id : {JsUndefined},
   attrs : [ColumnNames -> {Num(0)}],
   cid : {CHOOSE c \in 1..Cardinality(CidsInUse) + 1 : c \notin CidsInUse}]

\* the call ends, by a return or by an exception; seen keeps the last call
BodyBecomes(b, op, cid, given) ==
  /\ collection' = b.collection
  /\ rows' = b.rows
  /\ thrown' = b.thrown
  /\ seen' = <<[cid |-> cid, given |-> given, op |-> op,
                own |-> collection.comparator]>>
  /\ UNCHANGED <<columns, header, sortEvent>>
  /\ UNCHANGED <<column, validate, model, cell, editors, made, trace>>
  /\ UNCHANGED callVars

\* collection.add(model, {at: at}) by the application
Add ==
  /\ Len(collection.models) <= NumModels
  /\ \E aModel \in FreshModels, at \in 0..Len(collection.models) :
       \E b \in CollectionAdd(BodyWorld, aModel, at) :
          BodyBecomes(b, "add", aModel.cid, NoComparator)

\* body.insertRow(model, {at: at}) by the application
InsertRowCall ==
  /\ Len(collection.models) <= NumModels
  /\ \E aModel \in FreshModels, at \in 0..Len(collection.models) :
       \E b \in InsertRow(BodyWorld, aModel, at) :
          BodyBecomes(b, "insertRow", aModel.cid, NoComparator)

\* collection.remove(model) by the application
Remove ==
  \E i \in DOMAIN collection.models :
     BodyBecomes(CollectionRemove(BodyWorld, collection.models[i]),
                 "remove", collection.models[i].cid, NoComparator)

\* body.removeRow(model) by the application
RemoveRowCall ==
  \E i \in DOMAIN collection.models :
     BodyBecomes(RemoveRow(BodyWorld, collection.models[i]),
                 "removeRow", collection.models[i].cid, NoComparator)

\* collection.reset(models) by the application: the models it has in
\* another order, or none
Reset ==
  \E models \in {<<>>} \cup
                {[i \in DOMAIN collection.models |->
                    collection.models[Len(collection.models) + 1 - i]]} :
     BodyBecomes(CollectionReset(BodyWorld, models), "reset", 0, NoComparator)

\* body.sort(comparator) by the application or by the header; the rows are
\* refreshed on the "reset" of collection.sort()
SortCall ==
  \E comparator \in Comparators :
     \E b \in BodySort(BodyWorld, comparator) :
        BodyBecomes(b, "sort", 0, comparator)

\* a Body over a collection of NumModels models, which has a comparator of
\* its own or none, and is in the order of that comparator
BodyInit ==
  /\ \E own \in Comparators, values \in [1..NumModels -> AttrValues] :
       \E models \in
            LET made1 == [k \in 1..NumModels |->
                            [id |-> JsUndefined,
                             attrs |-> [name \in ColumnNames |->
                                          IF name = "a" THEN values[k]
                                          ELSE Num(0)],
                             cid |-> k]]
            IN  IF own = NoComparator THEN {made1}
                ELSE ArraySort(made1, own) :
          collection = [comparator |-> own, models |-> models]
  /\ rows = [k \in 1..NumModels |-> collection.models[k].cid]
  /\ seen = <<>>
  /\ columns = <<>>
  /\ header = <<>>
  /\ sortEvent = NoEvent
  /\ NoCellEdited
  /\ NoCall

BodyNext ==
  \/ Add
  \/ InsertRowCall
  \/ Remove
  \/ RemoveRowCall
  \/ Reset
  \/ SortCall

BodySpec == BodyInit /\ [][BodyNext]_vars

----------------------------------------------------------------------------
(* Properties of the constructors *)

\* the value is missing or is the empty string
MissingOrEmpty(v) == v \in {JsUndefined, JsNull, EmptyString}

\* the cell type given is a class, or a name under which the module exports
\* a cell class once the name is capitalized
CellTypeResolves(v) ==
  \/ v.t = "class"
  \/ v.t = "string" /\ v # EmptyString
       /\ ~IsUndefined(Backgrid(Capitalize(v), "Cell"))

\* C12: new Column fails when the name or the cell is missing or empty, and
\* succeeds when both are given and the cell type resolves; a column that was
\* constructed has a name and a cell, and its cell is a class.
C12_ColumnConstruction ==
  (call # <<>> /\ call.fn = "Column") =>
     /\ (MissingOrEmpty(call.arg.name) \/ MissingOrEmpty(call.arg.cell))
          => call.outcome.kind = "thrown"
     /\ (/\ ~MissingOrEmpty(call.arg.name)
         /\ ~MissingOrEmpty(call.arg.cell)
         /\ CellTypeResolves(call.arg.cell))
          => /\ call.outcome.kind = "returned"
             /\ call.outcome.value.name = call.arg.name
     /\ call.outcome.kind = "returned"
          => /\ ~MissingOrEmpty(call.outcome.value.name)
             /\ call.outcome.value.cell.t = "class"

C12_Witness ==
  /\ call # <<>> /\ call.fn = "Column"
  /\ call.arg.name = EmptyString
  /\ call.arg.cell = Str("s", "tring")
  /\ call.outcome = Thrown("Error")

C12_WitnessBuilt ==
  /\ call # <<>> /\ call.fn = "Column"
  /\ call.arg.cell = Str("s", "tring")
  /\ call.outcome.kind = "returned"

\* the value is an object with fromRaw and toRaw
IsFormatterObject(v) ==
  v.t \in {"object", "NumberFormatter", "DatetimeFormatter"}

\* the formatter a name stands for: a new instance of the class of that name
Named(name) ==
  IF name = Str("n", "umber")
  THEN [t |-> "NumberFormatter", decimals |-> 2, decimalSeparator |-> ".",
        orderSeparator |-> ","]
  ELSE [t |-> "DatetimeFormatter", includeDate |-> TRUE, includeTime |-> TRUE,
        includeMilli |-> FALSE]

\* the default formatter of a cell type constructed with the options
TypeDefault(cellType, options) ==
  CASE cellType = "Cell" -> Object("Formatter")
    [] cellType = "StringCell" -> Object("StringCell.formatter")
    [] cellType = "NumberCell" ->
         [t |-> "NumberFormatter",
          decimals |-> IF IsUndefined(options.decimals) THEN 2
                       ELSE options.decimals.n,
          decimalSeparator |-> ".", orderSeparator |-> ","]
    [] cellType = "IntegerCell" ->
         [t |-> "NumberFormatter", decimals |-> 0,
          decimalSeparator |-> ".", orderSeparator |-> ","]
    [] OTHER ->
         [t |-> "DatetimeFormatter", includeDate |-> cellType # "TimeCell",
          includeTime |-> cellType # "DateCell", includeMilli |-> FALSE]

\* the formatter the priority picks: the option, else the column's, else the
\* default of the cell type; a name stands for an instance of its class
Resolved(cellType, options, col) ==
  LET given == IF ~MissingOrEmpty(options.formatter) THEN options.formatter
               ELSE col.formatter
  IN  IF MissingOrEmpty(given) THEN TypeDefault(cellType, options)
      ELSE IF given.t = "string" THEN Named(given)
      ELSE given

\* C13: a built-in cell that was constructed has a formatter that is an
\* object with fromRaw and toRaw, picked by the priority explicit option,
\* then the column's formatter, then the default of the cell type, whether a
\* formatter is given as an object or as a name.
C13_FormatterResolution ==
  (call # <<>> /\ call.fn = "Cell" /\ call.outcome.kind = "returned") =>
     /\ IsFormatterObject(call.outcome.value)
     /\ call.outcome.value =
          Resolved(call.arg.type, call.arg.options, call.arg.column)

\* C13 for the cells whose class does not override initialize
C13_CellAndStringCell ==
  (/\ call # <<>> /\ call.fn = "Cell" /\ call.outcome.kind = "returned"
   /\ call.arg.type \in {"Cell", "StringCell"})
  => call.outcome.value =
       Resolved(call.arg.type, call.arg.options, call.arg.column)

\* C13 for the formatters given as objects
C13_GivenObjects ==
  (/\ call # <<>> /\ call.fn = "Cell" /\ call.outcome.kind = "returned"
   /\ call.arg.options.formatter.t # "string"
   /\ call.arg.column.formatter.t # "string")
  => call.outcome.value =
       Resolved(call.arg.type, call.arg.options, call.arg.column)

\* C19: new NumberFormatter fails, with a RangeError, exactly when the
\* decimals given are below 0 or above 20; it succeeds for 0 to 20 and when
\* decimals is left out, which gives 2 decimals.
C19_DecimalsRange ==
  (call # <<>> /\ call.fn = "NumberFormatter") =>
     LET given == call.arg.decimals
     IN  /\ call.outcome.kind = "thrown"
              <=> (~IsUndefined(given) /\ given.n \notin 0..20)
         /\ call.outcome.kind = "thrown" => call.outcome = Thrown("RangeError")
         /\ call.outcome.kind = "returned" =>
              call.outcome.value.decimals =
                IF IsUndefined(given) THEN 2 ELSE given.n

C19_Witness ==
  /\ call # <<>> /\ call.fn = "NumberFormatter"
  /\ call.arg.decimals = Num(21)
  /\ call.outcome = Thrown("RangeError")

C19_WitnessDefault ==
  /\ call # <<>> /\ call.fn = "NumberFormatter"
  /\ IsUndefined(call.arg.decimals)
  /\ call.outcome.kind = "returned"

\* the flag as the caller gave it, true or false when the caller left it out
Flag(options, key, default) ==
  IF key \in DOMAIN options THEN options[key] ELSE default

\* C23: new DatetimeFormatter fails with an Error when includeDate and
\* includeTime are both false, and succeeds for every other combination of
\* includeDate, includeTime and includeMilli, given or left to the defaults.
C23_DatetimeConstruction ==
  (call # <<>> /\ call.fn = "DatetimeFormatter") =>
     IF /\ ~Flag(call.arg, "includeDate", TRUE)
        /\ ~Flag(call.arg, "includeTime", TRUE)
     THEN call.outcome = Thrown("Error")
     ELSE /\ call.outcome.kind = "returned"
          /\ call.outcome.value.includeDate = Flag(call.arg, "includeDate", TRUE)
          /\ call.outcome.value.includeTime = Flag(call.arg, "includeTime", TRUE)
          /\ call.outcome.value.includeMilli
               = Flag(call.arg, "includeMilli", FALSE)

C23_Witness ==
  /\ call # <<>> /\ call.fn = "DatetimeFormatter"
  /\ DOMAIN call.arg = {"includeDate", "includeTime"}
  /\ ~call.arg.includeDate /\ ~call.arg.includeTime
  /\ call.outcome = Thrown("Error")

C23_WitnessTimeOnly ==
  /\ call # <<>> /\ call.fn = "DatetimeFormatter"
  /\ DOMAIN call.arg = {"includeDate"}
  /\ ~call.arg.includeDate
  /\ call.outcome.kind = "returned"
  /\ call.outcome.value.includeTime

----------------------------------------------------------------------------
(* Properties of the number formatter *)

\* the call under way is fn of a NumberFormatter
NumberCall(fn) ==
  /\ call # <<>> /\ call.fn = fn
  /\ theFormatter # <<>> /\ theFormatter.t = "NumberFormatter"

\* C14: NumberFormatter.fromRaw returns a string, without throwing, for
\* every raw value: a finite number, NaN, null, undefined, a numeric string,
\* a string that is not numeric; NaN, null, undefined and the strings that
\* are not numeric give the empty string.
C14_FromRawNeverFails ==
  NumberCall("fromRaw") =>
     /\ call.outcome.kind = "returned"
     /\ (\/ call.arg \in {NaN, JsNull, JsUndefined}
         \/ call.arg.t = "string" /\ ToNumber(call.arg.chars) = NaN)
          => call.outcome.value = <<>>

\* C14 for the raw values that are not strings
C14_NotStrings ==
  (NumberCall("fromRaw") /\ call.arg.t # "string") =>
     /\ call.outcome.kind = "returned"
     /\ call.arg \in {NaN, JsNull, JsUndefined} => call.outcome.value = <<>>

\* the text without the order separators and with a point for each decimal
\* separator
Cleaned(text, this) ==
  LET Kept(c) == c # this.orderSeparator
      kept == SelectSeq(text, Kept)
  IN  [i \in DOMAIN kept |->
         IF kept[i] = this.decimalSeparator THEN "." ELSE kept[i]]

\* the decimal notation of a finite number: a sign or none, then digits with
\* at most one point among them
IsDecimalNotation(s) ==
  LET rest == IF s # <<>> /\ s[1] \in {"+", "-"} THEN Tail(s) ELSE s
      points == {i \in DOMAIN rest : rest[i] = "."}
  IN  /\ Cardinality(points) <= 1
      /\ Cardinality(points) < Len(rest)
      /\ \A i \in DOMAIN rest \ points : IsNumeral(rest[i])

Abs(x) == IF x < 0 THEN -x ELSE x

\* r thousandths is k thousandths rounded to the digits: the nearest
\* multiple of 10^-digits, away from zero when k is half-way
Rounded(k, digits, r) ==
  LET unit == Pow10(3 - digits)
  IN  /\ r % unit = 0
      /\ 2 * Abs(r - k) <= unit
      /\ (2 * Abs(r - k) = unit /\ IsExact(k)) => Abs(r) > Abs(k)

\* C16: NumberFormatter.toRaw returns undefined, and neither throws nor
\* returns a value that is not finite, for every text that is not the decimal
\* notation of a finite number once the order separators are removed and the
\* decimal separator is replaced, such as 12x3, 1.2.3, the empty text and
\* Infinity; for every other text it returns the number rounded to decimals.
C16_ToRawUndefined ==
  NumberCall("toRaw") =>
     LET s == Trim(Cleaned(call.arg, theFormatter))
     IN  IF IsDecimalNotation(s)
         THEN /\ call.outcome.kind = "returned"
              /\ call.outcome.value.t = "number"
              /\ Rounded(ToNumber(s).milli, theFormatter.decimals,
                         call.outcome.value.milli)
         ELSE call.outcome = Returned(JsUndefined)

\* C16 for the texts that are decimal notations, and for 12x3 and 1.2.3
C16_DecimalsAndMalformed ==
  NumberCall("toRaw") =>
     LET s == Trim(Cleaned(call.arg, theFormatter))
     IN  /\ IsDecimalNotation(s) =>
              /\ call.outcome.kind = "returned"
              /\ call.outcome.value.t = "number"
              /\ Rounded(ToNumber(s).milli, theFormatter.decimals,
                         call.outcome.value.milli)
         /\ s \in {<<"1", "2", "x", "3">>, <<"1", ".", "2", ".", "3">>}
              => call.outcome = Returned(JsUndefined)
         /\ call.outcome.kind = "returned"

\* toRaw was called with the text that fromRaw returned for a finite number,
\* by a formatter whose separators are not empty
WentRound ==
  /\ NumberCall("toRaw")
  /\ call.after # <<>> /\ call.after.arg.t = "number"
  /\ theFormatter.orderSeparator # ""

\* C17: toRaw(fromRaw(n)) is n rounded to the decimals of the formatter, for
\* every formatter with decimals 0 to 20 and separators that differ and are
\* not empty, and every finite n.
C17_RoundTrip ==
  WentRound =>
     /\ call.outcome.kind = "returned"
     /\ call.outcome.value.t = "number"
     /\ Rounded(call.after.arg.milli, theFormatter.decimals,
                call.outcome.value.milli)

\* C17, amended: the same for the formatters none of whose separators is the
\* minus sign
C17_RoundTripNoMinus ==
  (WentRound /\ theFormatter.orderSeparator # "-") =>
     /\ call.outcome.kind = "returned"
     /\ call.outcome.value.t = "number"
     /\ Rounded(call.after.arg.milli, theFormatter.decimals,
                call.outcome.value.milli)

\* the digits in groups of three from the right, the separator between them
RECURSIVE Grouped(_, _)
Grouped(digits, separator) ==
  IF Len(digits) <= 3 THEN digits
  ELSE Grouped(SubSeq(digits, 1, Len(digits) - 3), separator)
         \o (IF separator = "" THEN <<>> ELSE <<separator>>)
         \o SubSeq(digits, Len(digits) - 2, Len(digits))

\* the display of n units of 10^-decimals, negative or not
Display(negative, n, this) ==
  LET scale == Pow10(this.decimals)
      decimals == NumeralOf(n % scale)
  IN  (IF negative THEN <<"-">> ELSE <<>>)
        \o Grouped(NumeralOf(n \div scale), this.orderSeparator)
        \o (IF this.decimals = 0 THEN <<>>
            ELSE <<this.decimalSeparator>>
                   \o [i \in 1..(this.decimals - Len(decimals)) |-> "0"]
                   \o decimals)

\* C18: fromRaw of a finite number n is n rounded to decimals, with the order
\* separator between the groups of three digits of the integer part counted
\* from the right (none after a minus sign, none among the decimals) and the
\* decimal separator before the decimals: 1234.5 gives 1,234.50, and with
\* decimals 0, 3.7 gives 4.
C18_FromRawDisplay ==
  (NumberCall("fromRaw") /\ call.arg.t = "number") =>
     /\ \E r \in {(call.arg.milli \div Pow10(3 - theFormatter.decimals) + e)
                    * Pow10(3 - theFormatter.decimals) : e \in {0, 1}} :
          /\ Rounded(call.arg.milli, theFormatter.decimals, r)
          /\ call.outcome =
               Returned(Display(call.arg.milli < 0,
                                Abs(r) \div Pow10(3 - theFormatter.decimals),
                                theFormatter))
     /\ (/\ call.arg = Dec(1234500) /\ theFormatter.decimals = 2
         /\ theFormatter.decimalSeparator = "."
         /\ theFormatter.orderSeparator = ",")
          => call.outcome.value = <<"1", ",", "2", "3", "4", ".", "5", "0">>
     /\ (call.arg = Dec(3700) /\ theFormatter.decimals = 0)
          => call.outcome.value = <<"4">>

C18_Witness ==
  /\ NumberCall("fromRaw")
  /\ call.arg = Dec(-123456789)
  /\ theFormatter.decimals = 1
  /\ call.outcome.value = <<"-", "1", "2", "3", " ", "4", "5", "6", ",", "8">>

----------------------------------------------------------------------------
(* Properties of the datetime formatter *)

\* the last call was to the function, of a DatetimeFormatter
DatetimeCall(fn) ==
  /\ call # <<>> /\ call.fn = fn
  /\ theFormatter # <<>> /\ theFormatter.t = "DatetimeFormatter"

\* C15: DatetimeFormatter.fromRaw returns a display string, without
\* throwing, for every raw value (an ISO-8601 string, a malformed string, the
\* empty string, null, undefined) and every valid configuration.
C15_FromRawNeverFails ==
  DatetimeCall("fromRaw") =>
     /\ call.outcome.kind = "returned"
     /\ call.outcome.value.t = "string"

\* C15 for the raw values that are strings
C15_Strings ==
  (DatetimeCall("fromRaw") /\ call.arg.t = "string") =>
     /\ call.outcome.kind = "returned"
     /\ call.outcome.value.t = "string"

\* the text is a date, T, a time and an offset of hours and minutes
IsWithOffset(v) ==
  /\ v.t = "string" /\ Len(v.chars) = 25
  /\ v.chars[11] = "T" /\ v.chars[20] \in {"+", "-"} /\ v.chars[23] = ":"

\* the text is a date, T, a time without milliseconds and Z
IsWithZ(v) ==
  /\ v.t = "string" /\ Len(v.chars) = 20
  /\ v.chars[11] = "T" /\ v.chars[20] = "Z"

\* the instant that an ISO-8601 text of a date, a time and a zone denotes,
\* read off the positions of its fields
IsoInstant(s) ==
  LET N(i, n) == NumeralValue(SubSeq(s, i, i + n - 1), 10)
      fraction == Len(s) > 20 /\ s[20] = "."
      z == IF fraction THEN 24 ELSE 20
      offset == IF s[z] = "Z" THEN 0
                ELSE (IF s[z] = "-" THEN -1 ELSE 1)
                       * (N(z + 1, 2) * 60 + N(z + 4, 2))
      minutes == N(12, 2) * 60 + N(15, 2) - offset
  IN  [ms |-> (minutes % (24 * 60)) * MsPerMinute + N(18, 2) * Thousand
                + (IF fraction THEN N(21, 3) ELSE 0),
       day |-> DayFromYearMonth(N(1, 4), N(6, 2)) + N(9, 2) - 1
                 + (minutes \div (24 * 60))]

\* toRaw was called with the text that fromRaw returned, by a formatter of
\* dates with times
DatetimeWentRound ==
  /\ DatetimeCall("toRaw")
  /\ call.after # <<>>
  /\ theFormatter.includeDate /\ theFormatter.includeTime

\* C20: toRaw(fromRaw(s)) is defined and denotes the same UTC instant as s,
\* for a formatter with includeDate and includeTime, in any local time zone,
\* for every ISO-8601 text s of a date, a time and an offset of hours and
\* minutes, positive or negative.
C20_RoundTrip ==
  (DatetimeWentRound /\ IsWithOffset(call.after.arg)) =>
     /\ call.outcome.kind = "returned"
     /\ call.outcome.value.t = "string"
     /\ IsoInstant(call.outcome.value.chars)
          = IsoInstant(call.after.arg.chars)

\* C20 for the texts whose zone is Z
C20_RoundTripOfZ ==
  (DatetimeWentRound /\ IsWithZ(call.after.arg)) =>
     /\ call.outcome.kind = "returned"
     /\ call.outcome.value.t = "string"
     /\ IsoInstant(call.outcome.value.chars)
          = IsoInstant(call.after.arg.chars)

\* 2012-02-29T23:59:59Z is displayed as 2012-03-01 05:29:59 five and a half
\* hours east of UTC
DatetimeExample ==
  /\ DatetimeCall("fromRaw")
  /\ timezone = 5 * 60 + 30
  /\ call.arg = Text(DateText(<<2012, 2, 29>>) \o <<"T">>
                       \o TimeText(<<23, 59, 59>>) \o <<"Z">>)
  /\ call.outcome.value = Text(DateText(<<2012, 3, 1>>) \o <<" ">>
                                 \o TimeText(<<5, 29, 59>>))

\* the characters match the pattern, in which d stands for a digit and every
\* other character for itself
Matches(s, pattern) ==
  /\ Len(s) = Len(pattern)
  /\ \A i \in DOMAIN s :
       IF pattern[i] = "d" THEN IsNumeral(s[i]) ELSE s[i] = pattern[i]

DatePattern == <<"d", "d", "d", "d", "-", "d", "d", "-", "d", "d">>
TimePattern == <<"d", "d", ":", "d", "d", ":", "d", "d">>
MilliPattern == <<".", "d", "d", "d">>

\* the parts of the text between its T, its Z and its spaces
IsMark(c) == c \in {"T", "Z", " "}
Segments(s) ==
  {SubSeq(s, p[1], p[2]) :
     p \in {p \in (DOMAIN s) \X (DOMAIN s) :
              /\ p[1] <= p[2]
              /\ \A k \in p[1]..p[2] : ~IsMark(s[k])
              /\ p[1] = 1 \/ IsMark(s[p[1] - 1])
              /\ p[2] = Len(s) \/ IsMark(s[p[2] + 1])}}

\* the text has a date (its year signed or not), a time among its segments
HasDate(s) ==
  \E g \in Segments(s) :
     \/ Matches(g, DatePattern)
     \/ \E sign \in {"+", "-"} : Matches(g, <<sign>> \o DatePattern)
HasTime(s) ==
  \E g \in Segments(s) :
     Matches(g, TimePattern) \/ Matches(g, TimePattern \o MilliPattern)

\* the text is made of the segments that the formatter includes, and of no
\* more
ExactlyConfigured(this, s) ==
  LET times == {TimePattern, TimePattern \o MilliPattern}
  IN  IF this.includeDate /\ this.includeTime
      THEN \E mark \in {"T", " "}, time \in times :
              Matches(s, DatePattern \o <<mark>> \o time)
      ELSE IF this.includeDate THEN Matches(s, DatePattern)
      ELSE \E time \in times : Matches(s, time)

\* C21: DatetimeFormatter.toRaw returns undefined whenever a segment that the
\* configuration requires (the date when includeDate, the time when
\* includeTime) is absent or malformed, and whenever the text has a segment
\* that the configuration excludes (a time when not includeTime, a date when
\* not includeDate); it returns a string for every text made of exactly the
\* configured segments, well-formed.
C21_ToRawUndefined ==
  DatetimeCall("toRaw") =>
     /\ call.outcome.kind = "returned"
     /\ (\/ theFormatter.includeDate /\ ~HasDate(call.arg.chars)
         \/ theFormatter.includeTime /\ ~HasTime(call.arg.chars)
         \/ ~theFormatter.includeTime /\ HasTime(call.arg.chars)
         \/ ~theFormatter.includeDate /\ HasDate(call.arg.chars))
          => call.outcome.value = JsUndefined
     /\ ExactlyConfigured(theFormatter, call.arg.chars)
          => call.outcome.value.t = "string"

\* C21 for the segments required, and for the segments excluded when the
\* text is a date followed by a time
C21_RequiredOrInPlace ==
  DatetimeCall("toRaw") =>
     /\ call.outcome.kind = "returned"
     /\ (\/ theFormatter.includeDate /\ ~HasDate(call.arg.chars)
         \/ theFormatter.includeTime /\ ~HasTime(call.arg.chars)
         \/ /\ ~(theFormatter.includeDate /\ theFormatter.includeTime)
            /\ \E mark \in {"T", " "} :
                  Matches(call.arg.chars, DatePattern \o <<mark>> \o TimePattern))
          => call.outcome.value = JsUndefined
     /\ ExactlyConfigured(theFormatter, call.arg.chars)
          => call.outcome.value.t = "string"

\* the strict ISO-8601 form of what the formatter includes
IsoPattern(this) ==
  LET time == TimePattern
                \o (IF this.includeMilli THEN MilliPattern ELSE <<>>)
  IN  IF this.includeDate /\ this.includeTime
      THEN DatePattern \o <<"T">> \o time \o <<"Z">>
      ELSE IF this.includeDate THEN DatePattern ELSE time

\* toRaw returned a string
ToRawDefined ==
  /\ DatetimeCall("toRaw")
  /\ call.outcome.kind = "returned"
  /\ call.outcome.value.t = "string"

\* C22: every defined result of DatetimeFormatter.toRaw is strict ISO-8601 for
\* what is configured: YYYY-MM-DD for the date alone, HH:mm:ss[.SSS] for the
\* time alone, YYYY-MM-DDTHH:mm:ss[.SSS]Z for both, with .SSS exactly when
\* includeMilli.
C22_StrictIso ==
  ToRawDefined => Matches(call.outcome.value.chars, IsoPattern(theFormatter))

\* C22 for the texts whose year is not signed and is not 9999
C22_FourDigitYears ==
  (/\ ToRawDefined
   /\ call.arg.chars[1] \notin {"+", "-"}
   /\ SubSeq(call.arg.chars, 1, 4) # <<"9", "9", "9", "9">>)
     => Matches(call.outcome.value.chars, IsoPattern(theFormatter))

----------------------------------------------------------------------------
(* Properties of the Body *)

\* the last call to the Body or to its collection was op
BodyCall(op) == seen # <<>> /\ seen[1].op = op

\* there are as many rows as models, and the i-th row is the row of the i-th
\* model
RowsFollowCollection ==
  rows = [i \in DOMAIN collection.models |-> collection.models[i].cid]

\* C25: the rows of the Body correspond one to one, in the same order, to
\* the models of its collection after any sequence of add, remove and reset
\* events and of direct calls of insertRow and removeRow: rows.length is the
\* length of the collection and rows[i] renders its i-th model; an add event
\* splices a new row in at the index of the model added.
C25_RowsFollowCollection ==
  /\ Len(rows) = Len(collection.models)
  /\ \A i \in DOMAIN rows : rows[i] = collection.models[i].cid

\* C25 for remove and reset events, direct calls of removeRow and sorts: they
\* keep the correspondence, and end without an exception
C25_RemoveAndReset ==
  [][(/\ RowsFollowCollection
      /\ seen' # <<>>
      /\ seen'[1].op \in {"remove", "removeRow", "reset", "sort"})
       => (RowsFollowCollection' /\ ~thrown')]_vars

\* an add leaves the Body a row short, by an exception
AddFailed ==
  /\ BodyCall("add")
  /\ thrown
  /\ Len(rows) + 1 = Len(collection.models)


\* C26: Body.sort leaves the comparator of the collection as it was: whatever
\* comparator the collection had, or none, before Body.sort(c) is called, for
\* any c and for null, it has that comparator when the call returns.
C26_ComparatorKept ==
  BodyCall("sort") => (~thrown /\ collection.comparator = seen[1].own)

\* a collection with a comparator of its own was sorted by another, and its
\* models and rows are in the order of the other
C26_Witness ==
  /\ BodyCall("sort")
  /\ seen[1].own = [fn |-> "whenUnsorted", col |-> "a"]
  /\ seen[1].given = [fn |-> "whenAscending", col |-> "a"]
  /\ collection.comparator = seen[1].own
  /\ Len(rows) = 2
  /\ collection.models[1].attrs["a"] = Num(1)
  /\ collection.models[2].attrs["a"] = Num(0)
  /\ RowsFollowCollection

\* a collection without a comparator was sorted with null
C26_WitnessNull ==
  /\ BodyCall("sort")
  /\ seen[1].own = NoComparator
  /\ seen[1].given = NoComparator
  /\ collection.comparator = NoComparator

----------------------------------------------------------------------------
(* SelectCell *)

MaxOptions == 2     \* elements of optionValues, and options of one group

\* an array, and the object hash of an option group
Array(items) == [t |-> "array", items |-> items]
OptionGroup(name, value) == [t |-> "object", value |-> value, name |-> name]

\* _.isArray and _.isObject
IsArray(v) == v.t = "array"
IsObject(v) == v.t \in {"array", "object", "class"}

\* Number(array), to which j < array converts the array: the number of
\* array.join(","), which is "" for an empty array and holds a comma, so is
\* no numeral, for an array of name-value pairs
ArrayToNumber(array) ==
  IF IsArray(array) /\ array.items = <<>> THEN Num(0) ELSE NaN

\* for (var j = 0; j < optionGroupValues; j++): the texts appended from j on
RECURSIVE RenderGroup(_, _, _)
RenderGroup(optionGroupValues, j, rawData) ==
  IF Less(Num(j), ArrayToNumber(optionGroupValues))
  THEN LET optionGroupValue == optionGroupValues.items[j + 1]
           rest == RenderGroup(optionGroupValues, j + 1, rawData)
       IN  IF StrictEquals(optionGroupValue.items[2], rawData)
           THEN <<optionGroupValue.items[1]>> \o rest
           ELSE rest
  ELSE <<>>

\* for (var i = 0; i < optionValues.length; i++): the texts appended to $el
\* from i on, and whether the loop ended by the TypeError
RECURSIVE RenderOptions(_, _, _)
RenderOptions(optionValues, i, rawData) ==
  IF i >= Len(optionValues.items) THEN [thrown |-> FALSE, content |-> <<>>]
  ELSE
    LET optionValue == optionValues.items[i + 1]
        rest == RenderOptions(optionValues, i + 1, rawData)
        Appended(texts) == [rest EXCEPT !.content = texts \o @]
    IN  IF IsArray(optionValue)
        THEN IF StrictEquals(optionValue.items[2], rawData)
             THEN Appended(<<optionValue.items[1]>>)
             ELSE rest
        ELSE IF IsObject(optionValue)
        THEN Appended(RenderGroup(optionValue.value, 0, rawData))
        ELSE [thrown |-> TRUE, content |-> <<>>]

\* new SelectCell({optionValues: ..., model: ..., column: ...}), on a class
\* with no optionValues of its own
SelectCellNew(optionValues, rawData) ==
  LET this == [rawData |-> rawData, optionValues |-> Or(optionValues, JsUndefined)]
  IN  IF ~Truthy(this.optionValues) THEN Thrown("Error") ELSE Returned(this)

\* SelectCell.render, on the empty element of a new cell
SelectCellRender(this) ==
  LET done == RenderOptions(this.optionValues, 0, this.rawData)
  IN  IF done.thrown THEN Thrown("TypeError") ELSE Returned(done.content)

\* the name-value pairs, the option groups and the lists of them
OptionPairs ==
  {Array(<<Text(<<"O", "n", "e">>), Text(<<"1">>)>>),
   Array(<<Text(<<"T", "w", "o">>), Text(<<"2">>)>>),
   Array(<<Text(<<"U", "n", "o">>), Num(1)>>)}

OptionGroups ==
  {OptionGroup(Text(<<"g">>), Array(values)) :
     values \in UNION {[1..n -> OptionPairs] : n \in 0..MaxOptions}}

OptionValuesGiven ==
  {JsUndefined} \cup
  {Array(items) :
     items \in UNION {[1..n -> OptionPairs \cup OptionGroups \cup {Text(<<"x">>)}] :
                        n \in 0..MaxOptions}}

SelectRawValues == {Text(<<"1">>), Text(<<"2">>), Num(1), JsUndefined}

\* new SelectCell(options)
NewSelectCell ==
  /\ call = <<>>
  /\ \E optionValues \in OptionValuesGiven, rawData \in SelectRawValues :
      Called("SelectCell", [rawData |-> rawData, optionValues |-> optionValues],
              SelectCellNew(optionValues, rawData))

\* cell.render()
SelectRender ==
  /\ call # <<>> /\ call.fn = "SelectCell" /\ call.outcome.kind = "returned"
  /\ CalledAfter("render", call.outcome.value,
                 SelectCellRender(call.outcome.value))

SelectInit ==
  /\ call = <<>>
  /\ theFormatter = <<>>
  /\ timezone = 0
  /\ NoCellEdited
  /\ NoGrid

SelectNext ==
  \/ NewSelectCell
  \/ SelectRender

SelectSpec == SelectInit /\ [][SelectNext]_vars

----------------------------------------------------------------------------
(* Properties of the SelectCell *)

\* the name-value pairs of optionValues, of the list itself and of its groups
FlatPairs(optionValues) ==
  {optionValues.items[i] : i \in {k \in DOMAIN optionValues.items :
                                    IsArray(optionValues.items[k])}}

GroupPairs(optionValues) ==
  UNION {{optionValues.items[i].value.items[j] :
            j \in DOMAIN optionValues.items[i].value.items} :
         i \in {k \in DOMAIN optionValues.items :
                  ~IsArray(optionValues.items[k])}}

Shown(content, pair) == \E k \in DOMAIN content : content[k] = pair.items[1]

SelectRendered ==
  /\ call # <<>> /\ call.fn = "render"
  /\ call.outcome.kind = "returned"

\* C27: after SelectCell.render the cell shows the label of every option
\* whose value is the raw value of the model, whether the option is an
\* element of optionValues or an option of one of its groups.
C27_LabelShown ==
  SelectRendered =>
    \A pair \in FlatPairs(call.arg.optionValues) \cup GroupPairs(call.arg.optionValues) :
      StrictEquals(pair.items[2], call.arg.rawData) =>
        Shown(call.outcome.value, pair)

\* what holds of the code: the labels of the matching elements of the list
\* itself are shown, in the order of the list, and nothing else.
RECURSIVE MatchingFlat(_, _, _)
MatchingFlat(items, i, rawData) ==
  IF i > Len(items) THEN <<>>
  ELSE IF IsArray(items[i]) /\ StrictEquals(items[i].items[2], rawData)
  THEN <<items[i].items[1]>> \o MatchingFlat(items, i + 1, rawData)
  ELSE MatchingFlat(items, i + 1, rawData)

C27_FlatLabelShown ==
  SelectRendered =>
    call.outcome.value =
      MatchingFlat(call.arg.optionValues.items, 1, call.arg.rawData)

\* a group holds the option of the raw value and the cell is rendered empty
GroupLabelMissing ==
  /\ SelectRendered
  /\ call.arg.rawData = Text(<<"1">>)
  /\ call.arg.optionValues =
       Array(<<OptionGroup(Text(<<"g">>),
                           Array(<<Array(<<Text(<<"O", "n", "e">>), Text(<<"1">>)>>)>>))>>)
  /\ call.outcome.value = <<>>

----------------------------------------------------------------------------
(* Properties of the header cells together *)

\* the triggers on sortable columns, and the last of them up to trigger i
SortableTriggers(i) == {k \in 1..i : seen[k].sortable}

LastSortable(i) ==
  CHOOSE k \in SortableTriggers(i) : \A m \in SortableTriggers(i) : m <= k

Sorted == {name \in ColumnNames : header[name].direction # Null}

\* C30: of the header cells of one Header at most one has a direction, and
\* it is the cell of the sortable column triggered last; a trigger on a
\* sortable column other than the one triggered before it finds the column
\* with no direction and leaves it ascending, and the header cell of every
\* other column is left with no direction.
C30_OneSortedColumn ==
  /\ Cardinality(Sorted) <= 1
  /\ IF SortableTriggers(Len(seen)) = {}
     THEN Sorted = {}
     ELSE LET last == seen[LastSortable(Len(seen))]
          IN  /\ Sorted \subseteq {last.column}
              /\ header[last.column].direction = last.after
              /\ \A name \in ColumnNames \ {last.column} :
                   header[name] = [classes |-> {}, direction |-> Null]
  /\ \A i \in SortableTriggers(Len(seen)) :
       (\/ SortableTriggers(i - 1) = {}
        \/ seen[LastSortable(i - 1)].column # seen[i].column) =>
         /\ seen[i].before = Null
         /\ seen[i].after = "ascending"

\* column b is triggered while column a is sorted
C30_Witness ==
  /\ Len(seen) = 3
  /\ seen[1].column = "a" /\ seen[1].sortable
  /\ seen[2].column = "a" /\ seen[2].after = "descending"
  /\ seen[3].column = "b" /\ seen[3].sortable
  /\ header["a"].direction = Null
  /\ header["b"].direction = "ascending"

----------------------------------------------------------------------------
(* Properties of the recovery from an error *)

\* the cell is in display mode, showing text t, with no marker, its click
\* handler delegated again and editor id discarded
Recovered(c, eds, id, t) ==
  /\ Displays(c, t)
  /\ c.classes = {}
  /\ c.delegated
  /\ ~eds[id].inDom /\ ~eds[id].delegated /\ ~eds[id].focused
  /\ \A i \in DOMAIN c.subs : c.subs[i].ctx # id
  /\ \A i \in DOMAIN eds[id].subs : eds[id].subs[i].ctx # "cell"

C29_Step ==
  \A id \in 1..MaxEditors :
    LET v == ToRaw(cell.formatter, editors[id].text)
    IN  (Listening(id) /\ "error" \in cell.classes /\ trace' # <<>>) =>
          /\ trace'[1] = KeyEvent(KeyEscape) =>
               /\ model' = model
               /\ Recovered(cell', editors', id, FromRaw(cell.formatter, model))
          /\ (IsCommit(trace') /\ v # Undefined /\ Accepts(validate, v)) =>
               /\ model' = v
               /\ Recovered(cell', editors', id, FromRaw(cell.formatter, v))

\* C29: from an editing state with the error marker set, an Escape keydown
\* leaves the cell in display mode with neither the error nor the editing
\* marker, the editor discarded and the model as it was; a commit of a text
\* that converts and that the store accepts does the same and writes the
\* value.  The error marker is never on a cell in display mode.
C29_Recovery ==
  /\ [](cell.currentEditor = 0 => "error" \notin cell.classes)
  /\ [][C29_Step]_vars

\* an Escape took the error marker off the cell
C29_Witness ==
  /\ trace # <<>> /\ trace[1] = KeyEvent(KeyEscape)
  /\ \E id \in 1..MaxEditors :
       /\ Has(trace, <<"removeClass", "error", id>>)
       /\ Recovered(cell, editors, id, FromRaw(cell.formatter, model))

\* a valid commit took the error marker off the cell and wrote the value
C29_WitnessCommit ==
  /\ IsCommit(trace)
  /\ \E id \in 1..MaxEditors :
       /\ Has(trace, <<"removeClass", "error", id>>)
       /\ Has(trace, <<"set", "ok", id>>)
       /\ Recovered(cell, editors, id, FromRaw(cell.formatter, model))

----------------------------------------------------------------------------
(* Properties of the lookup of a type by its name *)

\* new Column was called with a name and with the cell type as a string
ColumnByName ==
  /\ call # <<>> /\ call.fn = "Column"
  /\ ~MissingOrEmpty(call.arg.name)
  /\ call.arg.cell.t = "string" /\ call.arg.cell # EmptyString

\* the formatter a new cell was given, in its options or else in its column
FormatterGiven ==
  IF ~MissingOrEmpty(call.arg.options.formatter)
  THEN call.arg.options.formatter ELSE call.arg.column.formatter

\* a cell was constructed with the formatter given as a string
CellByName(types) ==
  /\ call # <<>> /\ call.fn = "Cell"
  /\ call.arg.type \in types
  /\ FormatterGiven.t = "string" /\ FormatterGiven # EmptyString

\* the cell type of the column is the member of the name, or the
\* construction failed with a ReferenceError
ColumnLookup ==
  LET member == Backgrid(Capitalize(call.arg.cell), "Cell")
  IN  IF IsUndefined(member)
      THEN call.outcome = Thrown("ReferenceError")
      ELSE /\ call.outcome.kind = "returned"
           /\ call.outcome.value.cell = member

\* the formatter of the cell is an instance of the member of the name, or
\* the construction failed with a ReferenceError
FormatterLookup ==
  LET member == Backgrid(Capitalize(FormatterGiven), "Formatter")
  IN  IF IsUndefined(member)
      THEN call.outcome = Thrown("ReferenceError")
      ELSE /\ call.outcome.kind = "returned"
           /\ call.outcome.value.t =
                (IF member.head = "N" THEN "NumberFormatter"
                 ELSE "DatetimeFormatter")

\* C28: a cell type given to new Column as a string s is resolved to the
\* member Backgrid[capitalize(s) + "Cell"], and a formatter given to a new
\* cell as a string s to an instance of Backgrid[capitalize(s) + "Formatter"];
\* with no such member the construction fails with a ReferenceError; no
\* column that was constructed has a string for its cell, and no cell that
\* was constructed has a string for its formatter.
C28_TypeLookup ==
  /\ ColumnByName => ColumnLookup
  /\ CellByName(BuiltinCells) => FormatterLookup
  /\ (call # <<>> /\ call.outcome.kind = "returned") =>
       /\ call.fn = "Column" => call.outcome.value.cell.t # "string"
       /\ call.fn = "Cell" => call.outcome.value.t # "string"

\* what holds of the code: the lookup for columns, and for the cells whose
\* class does not override initialize
C28_ColumnsAndPlainCells ==
  /\ ColumnByName => ColumnLookup
  /\ CellByName({"Cell", "StringCell"}) => FormatterLookup
  /\ (call # <<>> /\ call.outcome.kind = "returned") =>
       /\ call.fn = "Column" => call.outcome.value.cell.t # "string"
       /\ (call.fn = "Cell" /\ call.arg.type \in {"Cell", "StringCell"}) =>
            call.outcome.value.t # "string"

\* a cell is constructed and its formatter is the name it was given
NameLeftUnresolved ==
  /\ CellByName({"DatetimeCell"})
  /\ call.outcome = Returned(Str("d", "atetime"))

----------------------------------------------------------------------------
(* Properties of the cell boundary *)

C24_Step ==
  \A id \in 1..MaxEditors :
    (/\ Listening(id)
     /\ IsCommit(trace')
     /\ TypeofUndefined(cell.formatter, ToRaw(cell.formatter, editors[id].text)))
    => /\ Has(trace', <<"trigger", "error", id>>)
       /\ "error" \in cell'.classes
       /\ cell'.currentEditor = id
       /\ model' = model

\* C24: whatever the class of the cell, the raw value stored and the text in
\* the editor, the handler of no click, keydown or blur ends by an exception,
\* and a commit of a text that toRaw cannot convert triggers error, which
\* puts the error marker on the cell and leaves it editing.
C24_NoExceptionPastCell ==
  /\ [](~thrown)
  /\ [][C24_Step]_vars

\* what holds of the code: a handler ends by an exception only when it is the
\* click handler and fromRaw fails on the raw value stored, which the
\* formatters of Cell, StringCell and EmailCell never do
C24_OnlyFromRawOnClick ==
  /\ [](thrown =>
          /\ trace = <<ClickEvent, <<"new", "editor", made>>,
                       <<"trigger", "edit", made>>>>
          /\ FromRawThrows(cell.formatter, model)
          /\ column.cell \notin CellTypes)
  /\ [][C24_Step]_vars

\* the click on a datetime cell whose attribute is not set: the handler
\* threw after emptying the cell and undelegating its events
ClickThrew ==
  /\ thrown
  /\ column.cell = "DatetimeCell"
  /\ model = JsUndefined
  /\ cell.content = EmptyContent
  /\ ~cell.delegated
  /\ "editor" \notin cell.classes

\* a commit of a text that toRaw cannot convert, on a number cell
NumberCommitFailed ==
  /\ column.cell = "NumberCell"
  /\ IsCommit(trace)
  /\ cell.currentEditor # 0
  /\ editors[cell.currentEditor].text = <<"x">>
  /\ "error" \in cell.classes

(***************************************************************************)
(* The milliseconds of DatetimeFormatter                                   *)
(***************************************************************************)

\* the SSS digits of the time segments of the text that carry a .SSS part
MilliFields(s) ==
  {SubSeq(g, 10, 12) :
     g \in {g \in Segments(s) : Matches(g, TimePattern \o MilliPattern)}}

\* fromRaw or toRaw of a formatter that includes the time and its
\* milliseconds was given a text whose time carries .SSS, and returned a text
MilliCall ==
  /\ DatetimeCall("fromRaw") \/ DatetimeCall("toRaw")
  /\ theFormatter.includeTime /\ theFormatter.includeMilli
  /\ call.arg.t = "string" /\ MilliFields(call.arg.chars) # {}
  /\ call.outcome.kind = "returned" /\ call.outcome.value.t = "string"

\* C40: DatetimeFormatter with includeTime = includeMilli = true preserves
\* milliseconds: for every well-formed input whose time segment carries a
\* .SSS part, the millisecond field of the result of fromRaw and of toRaw
\* equals the input's SSS, not a constant.
C40_MillisecondsPreserved ==
  MilliCall => MilliFields(call.outcome.value.chars) = MilliFields(call.arg.chars)

\* what the formatter does: the millisecond field of every result is 000
C40_MillisecondsZero ==
  MilliCall => MilliFields(call.outcome.value.chars) = {<<"0", "0", "0">>}

\* fromRaw and toRaw returned 000 for the milliseconds 123
MillisecondsLost(fn) ==
  /\ MilliCall /\ call.fn = fn
  /\ MilliFields(call.arg.chars) = {<<"1", "2", "3">>}
  /\ MilliFields(call.outcome.value.chars) = {<<"0", "0", "0">>}

----------------------------------------------------------------------------
(* Properties of a commit of the text as the editor rendered it *)

\* Enter is pressed in editor id while its text is the one that
\* DivCellEditor.render put there, in a cell of one of the classes
UneditedCommit(id, types) ==
  /\ column.cell \in types
  /\ Listening(id)
  /\ editors[id].text = FromRaw(cell.formatter, model)
  /\ trace' # <<>> /\ trace'[1] = KeyEvent(KeyEnter)

\* C34: committing unedited text does not change the stored value: for
\* StringCell and the base Cell, entering edit mode and pressing Enter without
\* changing the editor's text leaves the model attribute equal to its previous
\* value, toRaw(fromRaw(x)) = x for every string x, those containing "&"
\* included.
C34_UneditedCommitKeepsValue ==
  [][\A id \in 1..MaxEditors :
       UneditedCommit(id, {"Cell", "StringCell"}) => model' = model]_vars

\* C34 for the base Cell, whose formatter returns what it is given
C34_BaseCell ==
  [][\A id \in 1..MaxEditors :
       UneditedCommit(id, {"Cell"}) => model' = model]_vars

\* the Enter on the unedited text of a StringCell wrote the escaped text, the
\* attribute having been "&"
EscapedOnCommit ==
  /\ column.cell = "StringCell"
  /\ trace # <<>> /\ trace[1] = KeyEvent(KeyEnter)
  /\ \E id \in 1..MaxEditors : Has(trace, <<"set", "ok", id>>)
  /\ model = Escape(<<"&">>)

----------------------------------------------------------------------------
(* Properties of the subscriptions between the cell and its editors *)

\* the editors constructed that are not the current one: they have exited
Exited(id) == id <= made /\ id # cell.currentEditor

\* the step of a handler names editor id
Names(tr, id) == \E i \in DOMAIN tr : tr[i][3] = id /\ tr[i][1] # "event"

C35_Inv ==
  /\ \A i \in DOMAIN cell.subs :
       cell.subs[i] = [ev |-> "editing", cb |-> "postRender",
                       ctx |-> cell.currentEditor]
  /\ Len(cell.subs) <= 1
  /\ cell.currentEditor # 0 =>
       /\ Len(cell.subs) = 1
       /\ \E i \in DOMAIN editors[cell.currentEditor].subs :
            editors[cell.currentEditor].subs[i] =
               [ev |-> "done", cb |-> "exitEditMode", ctx |-> "cell"]
       /\ \E i \in DOMAIN editors[cell.currentEditor].subs :
            editors[cell.currentEditor].subs[i] =
               [ev |-> "error", cb |-> "renderError", ctx |-> "cell"]
  /\ \A id \in 1..MaxEditors :
       id # cell.currentEditor =>
          /\ \A i \in DOMAIN editors[id].subs : editors[id].subs[i].ctx # "cell"
          /\ ~editors[id].delegated

C35_Step ==
  \A id \in 1..MaxEditors :
     Exited(id) =>
        /\ ~Names(trace', id)
        /\ editors'[id] = editors[id]

\* C35: after any number of enter/exit edit cycles on one cell, only the
\* currently active editor (if any) is subscribed to the cell's "editing"
\* notification, and the cell is subscribed to the done and error signals of
\* that editor only; an editor that has exited has no DOM handler, is named
\* by no step of any later handler and is never changed again.
C35_NoSubscriptionLeft == []C35_Inv /\ [][C35_Step]_vars

\* a second editor is active after the first one has exited
C35_Witness ==
  /\ made = 2 /\ cell.currentEditor = 2
  /\ Has(trace, <<"focus", "editor", 2>>)
  /\ ~editors[1].inDom

----------------------------------------------------------------------------
(* Destroying a cell: Cell.dispose, Cell.remove and Row.dispose *)

\* dispose that leaves the editor of an editing cell in place
CellDisposeKeepsEditor(w) == CellUndelegateEvents(w)

\* Cell.dispose: exitEditMode when there is a currentEditor, then the dispose
\* of the Backbone.View patch (undelegateEvents; the cell has no callback on
\* the column or the model)
CellDispose(w) ==
  LET w1 == IF w.cell.currentEditor # 0 THEN ExitEditMode(w) ELSE w
  IN  IF w1.thrown THEN w1 ELSE CellUndelegateEvents(w1)

\* Cell.remove: the remove of the Backbone.View patch (this.dispose(), then
\* this.$el.remove()), then the removal of a currentEditor still there
CellRemove(w) ==
  LET w1 == CellDispose(w)
      w2 == Log(w1, <<"remove", "cell", 0>>)
      id == w2.cell.currentEditor
  IN  IF w1.thrown THEN w1
      ELSE IF id # 0
           THEN [EditorRemove(w2, id) EXCEPT !.cell.currentEditor = 0]
           ELSE w2

\* Row.dispose of the row whose cells are this cell: the row has no callback
\* on the cell; cell.dispose() on each cell
RowDispose(w) == CellDispose(w)

DisposeCall ==
  LET w == Handling(<<"call", "Cell.dispose", 0>>) IN Becomes(CellDispose(w))

RemoveCall ==
  LET w == Handling(<<"call", "Cell.remove", 0>>) IN Becomes(CellRemove(w))

RowDisposeCall ==
  LET w == Handling(<<"call", "Row.dispose", 0>>) IN Becomes(RowDispose(w))

DisposeNext ==
  \/ Next
  \/ DisposeCall
  \/ RemoveCall
  \/ RowDisposeCall

DisposeSpec == Init /\ [][DisposeNext]_vars

\* the handler of the step is a call that destroys the cell
IsDestroy(tr) ==
  /\ tr # <<>>
  /\ tr[1] \in {<<"call", "Cell.dispose", 0>>, <<"call", "Cell.remove", 0>>,
                <<"call", "Row.dispose", 0>>}

\* the cell has no editor, no editor is in its node, and none listens
NoEditorLeft(c, eds) ==
  /\ c.currentEditor = 0
  /\ c.content.kind # "editor"
  /\ "editor" \notin c.classes /\ "error" \notin c.classes
  /\ \A id \in 1..MaxEditors :
       /\ ~eds[id].inDom /\ ~eds[id].delegated /\ ~eds[id].focused
       /\ \A i \in DOMAIN eds[id].subs : eds[id].subs[i].ctx # "cell"
  /\ c.subs = <<>>

\* C36: after Cell.dispose() or Cell.remove(), called in display mode or in
\* editing mode, with or without the error marker, the cell has no active
\* editor, the editor is removed from the node and the model attribute is
\* unchanged, and no exception ends the call; Row.dispose does this for the
\* cell of the row.  No later event brings an editor back.
C36_DestroyedWithEditor ==
  /\ [][IsDestroy(trace') =>
          /\ NoEditorLeft(cell', editors')
          /\ model' = model
          /\ ~thrown'
          /\ ~cell'.delegated]_vars
  /\ [][(~cell.delegated /\ cell.currentEditor = 0) =>
          /\ NoEditorLeft(cell', editors')
          /\ model' = model /\ made' = made]_vars

\* the cell was destroyed while it was editing with the error marker set
C36_Witness ==
  /\ IsDestroy(trace)
  /\ \E id \in 1..MaxEditors : Has(trace, <<"removeClass", "error", id>>)
  /\ NoEditorLeft(cell, editors)

----------------------------------------------------------------------------
(* SelectCell with its SelectCellEditor, and BooleanCell with its checkbox *)

MaxNodes == 3       \* children of the cell's element in one behaviour

\* true and false
Bool(b) == [t |-> "boolean", b |-> b]

\* the text that the template's <%= value %> prints: "" for null and
\* undefined, else the string of the value
RECURSIVE NumeralsOf(_)
NumeralsOf(n) ==
  IF n < 10 THEN <<Numerals[n + 1]>>
  ELSE Append(NumeralsOf(n \div 10), Numerals[(n % 10) + 1])
Interpolated(value) ==
  CASE value.t = "string" -> value
    [] value.t = "number" -> Text(NumeralsOf(value.n))
    [] OTHER -> Text(<<>>)

\* a child of the cell's element: a text, a select or a checkbox, the last two
\* being the element of editor ed
TextNode(text) == [text |-> text, kind |-> "text", ed |-> 0]
ElementOf(kind, id) == [text |-> <<>>, kind |-> kind, ed |-> id]

\* the view of no editor, and of no checkbox
NoChoiceEditor ==
  [delegated |-> FALSE, inDom |-> FALSE, focused |-> FALSE, subs |-> <<>>,
   options |-> <<>>, selectedIndex |-> 0, checked |-> FALSE]

\* SelectCellEditor._renderOptions: an option for each name-value pair
RenderedOptions(nvps, currentValue) ==
  [i \in DOMAIN nvps.items |->
     [value |-> Interpolated(nvps.items[i].items[2]),
      selected |-> StrictEquals(currentValue, nvps.items[i].items[2])]]

\* the loop of SelectCellEditor.render from i on: the options appended to the
\* select, those of the option groups in their place
RECURSIVE AppendedOptions(_, _, _)
AppendedOptions(optionValues, i, currentValue) ==
  IF i >= Len(optionValues.items) THEN <<>>
  ELSE LET optionValue == optionValues.items[i + 1]
           rest == AppendedOptions(optionValues, i + 1, currentValue)
       IN  IF IsArray(optionValue)
           THEN <<[value |-> Interpolated(optionValue.items[2]),
                   selected |-> StrictEquals(optionValue.items[2], currentValue)]>>
                  \o rest
           ELSE RenderedOptions(optionValue.value, currentValue) \o rest

\* the option that a select shows as selected: the last one rendered with
\* the selected attribute, else the first one, else none
SelectedIndex(options) ==
  LET marked == {i \in DOMAIN options : options[i].selected}
  IN  IF marked # {} THEN CHOOSE i \in marked : \A j \in marked : j <= i
      ELSE IF options # <<>> THEN 1 ELSE 0

\* this.$el.val() of a select whose option k is the selected one
Val(options, k) == IF k = 0 THEN JsNull ELSE options[k].value

\* new SelectCellEditor(options): CellEditor.initialize subscribes postRender
\* to the parent's "editing"; the view delegates change and blur
SelectCellEditorNew(w, id) ==
  Log([w EXCEPT !.made = id,
                !.editors[id] = [NoChoiceEditor EXCEPT !.delegated = TRUE],
                !.cell.subs =
                   Append(@, [ev |-> "editing", cb |-> "postRender", ctx |-> id])],
      <<"new", "editor", id>>)

\* SelectCellEditor.render, of the optionValues that setOptionValues stored
SelectCellEditorRender(w, id) ==
  LET options == AppendedOptions(w.cell.optionValues, 0, w.model)
  IN  [w EXCEPT !.editors[id].options = options,
                !.editors[id].selectedIndex = SelectedIndex(options)]

\* this.$el.empty() of the cell
ChoiceEmpty(w) ==
  [w EXCEPT !.cell.content = <<>>,
            !.editors = [i \in DOMAIN @ |->
                           IF \E k \in DOMAIN w.cell.content :
                                 w.cell.content[k].ed = i
                           THEN [@[i] EXCEPT !.inDom = FALSE, !.focused = FALSE,
                                             !.delegated = FALSE]
                           ELSE @[i]]]

\* SelectCell.render: the labels of the options whose value is the raw value
\* are appended to the cell's element
SelectCellAppend(w) ==
  LET labels == RenderOptions(w.cell.optionValues, 0, w.model).content
  IN  [w EXCEPT !.cell.content =
                   @ \o [i \in DOMAIN labels |-> TextNode(labels[i].chars)]]

\* Cell.enterEditMode of a SelectCell: the "edit" event runs
\* SelectCell.setOptionValues, and "editing" the editor's postRender
SelectEnterEditMode(w) ==
  IF ColumnEditable(w)
  THEN LET id == w.made + 1
           w1 == [SelectCellEditorNew(w, id) EXCEPT !.cell.currentEditor = id]
           w2 == Log(w1, <<"trigger", "edit", id>>)
           w3 == [w2 EXCEPT !.editors[id].subs =
                     <<[ev |-> "done", cb |-> "exitEditMode", ctx |-> "cell"],
                       [ev |-> "error", cb |-> "renderError", ctx |-> "cell"]>>]
           w4 == CellUndelegateEvents(ChoiceEmpty(w3))
           w5 == SelectCellEditorRender(w4, id)
           w6 == Log([w5 EXCEPT !.cell.content = Append(@, ElementOf("select", id)),
                                !.editors[id].inDom = TRUE],
                     <<"append", "editor", id>>)
           w7 == Log([w6 EXCEPT !.cell.classes = @ \cup {"editor"}],
                     <<"addClass", "editor", id>>)
           w8 == Log(w7, <<"trigger", "editing", id>>)
       IN  Log([w8 EXCEPT !.editors[id].focused = TRUE],
               <<"focus", "editor", id>>)
  ELSE w

\* Cell.exitEditMode of a SelectCell
SelectExitEditMode(w) ==
  LET id == w.cell.currentEditor
      w1 == CellRemoveClass(w, "error")
      w2 == [w1 EXCEPT !.editors[id] =
                          [@ EXCEPT !.delegated = FALSE, !.inDom = FALSE,
                                    !.focused = FALSE, !.subs = <<>>],
                       !.cell.subs = SelectSeq(@, LAMBDA s : s.ctx # id),
                       !.cell.content = SelectSeq(@, LAMBDA node : node.ed # id)]
      w3 == [w2 EXCEPT !.cell.currentEditor = 0]
      w4 == CellRemoveClass(w3, "editor")
  IN  [SelectCellAppend(w4) EXCEPT !.cell.delegated = TRUE]

\* SelectCellEditor.save: the handler of change and of blur
SelectCellEditorSave(w, id) ==
  LET val == Val(w.editors[id].options, w.editors[id].selectedIndex)
      w1 == ModelSet(w, id, val)
  IN  SelectExitEditMode(Log(w1, <<"trigger", "done", id>>))

\* BooleanCell.render: a new checkbox becomes currentEditor and is appended
BooleanCellRender(w) ==
  LET id == w.made + 1
  IN  [w EXCEPT !.made = id,
                !.editors[id] = [NoChoiceEditor EXCEPT
                                   !.inDom = TRUE, !.checked = Truthy(w.model)],
                !.cell.currentEditor = id,
                !.cell.content = Append(@, ElementOf("checkbox", id))]

\* BooleanCell.enterEditMode
BooleanEnterEditMode(w) ==
  LET id == w.cell.currentEditor
  IN  Log([w EXCEPT !.cell.classes = @ \cup {"editor"},
                    !.editors = [i \in DOMAIN @ |->
                                   [@[i] EXCEPT !.focused = (i = id)]]],
          <<"focus", "editor", id>>)

\* BooleanCell.exitEditMode
BooleanExitEditMode(w) == CellRemoveClass(w, "editor")

\* BooleanCell.save; the formatter is Backgrid.Formatter
BooleanSave(w) ==
  LET id == w.cell.currentEditor
      val == FormatterToRaw(Bool(w.editors[id].checked))
  IN  ModelSet(w, id, val)

\* the lists of options of the cells: name-value pairs, with strings and with
\* a number for values, an option group, both, and none
SomeOptionValues ==
  LET One == Array(<<Text(<<"O", "n", "e">>), Text(<<"1">>)>>)
      Two == Array(<<Text(<<"T", "w", "o">>), Text(<<"2">>)>>)
      Uno == Array(<<Text(<<"U", "n", "o">>), Num(1)>>)
  IN  {Array(<<One, Two>>), Array(<<Uno, Two>>), Array(<<Two, One>>),
       Array(<<OptionGroup(Text(<<"g">>), Array(<<One, Two>>))>>),
       Array(<<Two, OptionGroup(Text(<<"g">>), Array(<<Uno>>))>>),
       Array(<<>>)}

BooleanRawValues == {Bool(TRUE), Bool(FALSE), JsUndefined}

\* a click on the cell or inside it: events: {click: "enterEditMode"}
ChoiceClick ==
  /\ cell.delegated
  /\ (column.cell = "SelectCell" /\ column.editable) => made < MaxEditors
  /\ LET w == Handling(<<"event", "click", 0>>)
     IN  Becomes(IF column.cell = "SelectCell"
                 THEN SelectEnterEditMode(w) ELSE BooleanEnterEditMode(w))

\* the user selects another option of the select: events: {change: "save"}
SelectChange ==
  \E id \in 1..made :
    /\ column.cell = "SelectCell" /\ Listening(id)
    /\ \E k \in DOMAIN editors[id].options :
         /\ k # editors[id].selectedIndex
         /\ LET w == Handling(<<"event", "change", k>>)
            IN  Becomes(SelectCellEditorSave(
                          [w EXCEPT !.editors[id].selectedIndex = k], id))

\* the select loses the focus: events: {blur: "save"}
SelectBlur ==
  \E id \in 1..made :
    /\ column.cell = "SelectCell" /\ Listening(id)
    /\ Becomes(SelectCellEditorSave(Handling(<<"event", "blur", 0>>), id))

\* the user checks or unchecks a checkbox of the cell:
\* events: {"change input[type=checkbox]": "save"}
CheckboxChange ==
  \E id \in 1..made :
    /\ column.cell = "BooleanCell" /\ cell.delegated /\ editors[id].inDom
    /\ LET w == Handling(<<"event", "change", id>>)
       IN  Becomes(BooleanSave([w EXCEPT !.editors[id].checked = ~@]))

\* a checkbox of the cell loses the focus:
\* events: {"blur input[type=checkbox]": "exitEditMode"}
CheckboxBlur ==
  \E id \in 1..made :
    /\ column.cell = "BooleanCell" /\ cell.delegated
    /\ editors[id].inDom /\ editors[id].focused
    /\ LET w == Handling(<<"event", "blur", id>>)
       IN  Becomes(BooleanExitEditMode([w EXCEPT !.editors[id].focused = FALSE]))

\* cell.render() on the cell already rendered, as every Row.render after the
\* first calls it
ChoiceRender ==
  /\ Len(cell.content) < MaxNodes
  /\ column.cell = "BooleanCell" => made < MaxEditors
  /\ LET w == Handling(<<"call", "render", 0>>)
     IN  Becomes(IF column.cell = "SelectCell"
                 THEN SelectCellAppend(w) ELSE BooleanCellRender(w))

\* the cell as constructed, and rendered once; SelectCell.initialize
\* subscribes setOptionValues to the cell's own "edit" (context 0: no editor)
ChoiceInit ==
  /\ column \in [cell : {"SelectCell", "BooleanCell"}, editable : BOOLEAN]
  /\ validate \in Validators
  /\ trace = <<>>
  /\ thrown = FALSE
  /\ \E optionValues \in SomeOptionValues, rawData \in SelectRawValues,
        flag \in BooleanRawValues :
       LET w == [column |-> column, validate |-> validate,
                 model |-> IF column.cell = "SelectCell" THEN rawData ELSE flag,
                 cell |-> [formatter |-> "Formatter",
                           delegated |-> TRUE,
                           subs |-> IF column.cell = "SelectCell"
                                    THEN <<[ev |-> "edit", cb |-> "setOptionValues",
                                            ctx |-> 0]>>
                                    ELSE <<>>,
                           content |-> <<>>,
                           classes |-> {},
                           currentEditor |-> 0,
                           optionValues |-> IF column.cell = "SelectCell"
                                            THEN optionValues ELSE JsUndefined],
                 editors |-> [i \in 1..MaxEditors |-> NoChoiceEditor],
                 made |-> 0, trace |-> <<>>, thrown |-> FALSE]
           rendered == IF column.cell = "SelectCell"
                       THEN SelectCellAppend(w) ELSE BooleanCellRender(w)
       IN  /\ model = rendered.model
           /\ cell = rendered.cell
           /\ editors = rendered.editors
           /\ made = rendered.made
  /\ NoGrid
  /\ NoCall

ChoiceNext ==
  \/ ChoiceClick
  \/ SelectChange
  \/ SelectBlur
  \/ CheckboxChange
  \/ CheckboxBlur
  \/ ChoiceRender

ChoiceSpec == ChoiceInit /\ [][ChoiceNext]_vars

----------------------------------------------------------------------------
(* Properties of SelectCell and BooleanCell *)

ChangeEvent(k) == <<"event", "change", k>>

\* the handler of the step is the one of event on a cell of the class
Handled(tr, cellType, event) ==
  /\ column.cell = cellType
  /\ tr # <<>> /\ tr[1] = event

\* C31: with a SelectCellEditor open, a blur event with no change of the
\* selected option leaves the model attribute exactly as it was (same value);
\* only a change of selection writes.
C31_BlurWritesNothing ==
  [][Handled(trace', "SelectCell", BlurEvent) => model' = model]_vars

\* what holds of a blur: the attribute becomes the value, a string, of the
\* option that the select shows, or null when the select has no option, if
\* the store accepts it
C31_BlurWritesShown ==
  [][\A id \in 1..MaxEditors :
       (Handled(trace', "SelectCell", BlurEvent) /\ Listening(id)) =>
          LET shown == Val(editors[id].options, editors[id].selectedIndex)
          IN  model' = IF Accepts(validate, shown) THEN shown ELSE model]_vars

\* a blur wrote null: the select had no option
BlurWroteNull ==
  /\ Handled(trace, "SelectCell", BlurEvent)
  /\ \E id \in 1..MaxEditors : Has(trace, <<"set", "ok", id>>)
  /\ model = JsNull

\* a blur wrote the string "1" where the attribute was not that string
BlurWroteString ==
  /\ Handled(trace, "SelectCell", BlurEvent)
  /\ \E id \in 1..MaxEditors : Has(trace, <<"set", "ok", id>>)
  /\ model = Text(<<"1">>)
  /\ cell.content = <<>>

\* the store rejected the write of editor id in the step
Rejected(tr) == \E id \in 1..MaxEditors : Has(tr, <<"set", "rejected", id>>)

\* C32: whenever the attribute store rejects a write attempted by
\* SelectCellEditor.save or BooleanCell.save, the cell ends the event with a
\* visible error state (error marker set, still editing) and has not
\* signalled done.
C32_RejectionShown ==
  [][Rejected(trace') =>
       /\ "error" \in cell'.classes
       /\ cell'.currentEditor # 0 /\ "editor" \in cell'.classes
       /\ \A id \in 1..MaxEditors : ~Has(trace', <<"trigger", "done", id>>)]_vars

\* C32 for DivCellEditor: a rejected write ends with the error marker set,
\* the editor still current and no done
C32_DivCellEditor ==
  [][Rejected(trace') =>
       /\ "error" \in cell'.classes
       /\ cell'.currentEditor # 0 /\ cell'.currentEditor = cell.currentEditor
       /\ \A id \in 1..MaxEditors : ~Has(trace', <<"trigger", "done", id>>)]_vars

\* the select's write was rejected, done was signalled and the cell is back
\* in display mode with no marker
SelectRejectionSwallowed ==
  /\ column.cell = "SelectCell"
  /\ Rejected(trace)
  /\ \E id \in 1..MaxEditors : Has(trace, <<"trigger", "done", id>>)
  /\ cell.currentEditor = 0 /\ cell.classes = {}

\* the checkbox's write was rejected and the cell has no error marker; the
\* checkbox shows what the attribute is not
BooleanRejectionSwallowed ==
  /\ column.cell = "BooleanCell"
  /\ Rejected(trace)
  /\ "error" \notin cell.classes
  /\ editors[cell.currentEditor].checked # Truthy(model)

\* C33: for a column with editable = false, no user event (click, change,
\* blur) on a SelectCell or a BooleanCell bound to it changes the model
\* attribute.
C33_NotEditableNotWritten ==
  [][(~column.editable /\ trace' # <<>> /\ trace'[1][1] = "event") =>
        model' = model]_vars

\* C33 for SelectCell: no editor is constructed and nothing is written
C33_SelectCell ==
  [][(~column.editable /\ column.cell = "SelectCell") =>
        model' = model /\ made' = made /\ cell'.currentEditor = 0]_vars

\* the checkbox of a column that is not editable wrote the attribute
NotEditableWritten ==
  /\ ~column.editable
  /\ \E id \in 1..MaxEditors :
       /\ Handled(trace, "BooleanCell", ChangeEvent(id))
       /\ Has(trace, <<"set", "ok", id>>)
       /\ model = Bool(editors[id].checked)

\* C39: after any number of render() calls the cell's node holds exactly one
\* rendering of the current value: a BooleanCell one checkbox, the one that
\* currentEditor refers to, and a SelectCell in display mode the label of the
\* raw value once.
C39_OneRendering ==
  /\ column.cell = "BooleanCell" =>
       cell.content = <<ElementOf("checkbox", cell.currentEditor)>>
  /\ (column.cell = "SelectCell" /\ cell.currentEditor = 0) =>
       LET labels == RenderOptions(cell.optionValues, 0, model).content
       IN  cell.content = [i \in DOMAIN labels |-> TextNode(labels[i].chars)]

\* a second render() left two checkboxes in the BooleanCell
TwoCheckboxes ==
  /\ Handled(trace, "BooleanCell", <<"call", "render", 0>>)
  /\ Len(cell.content) = 2
  /\ \A k \in 1..2 : cell.content[k].kind = "checkbox"

\* a second render() left the label twice in the SelectCell
TwoLabels ==
  /\ Handled(trace, "SelectCell", <<"call", "render", 0>>)
  /\ Len(cell.content) = 2
  /\ cell.content[1] = cell.content[2] /\ cell.content[1].kind = "text"

----------------------------------------------------------------------------
(* Row (src/src/row.js) and the events of its columns *)

MaxColumns == 3     \* columns that there are, in the collection or out of it
MaxAdded == 2       \* columns given to one call of columns.add

\* the name of the column with the cid: the columns from the second on show
\* the same attribute
NameOf(cid) == IF cid = 1 THEN "a" ELSE "b"

\* the Row, with its columns, and whether the call under way threw
RowWorld ==
  [thrown |-> FALSE, columns |-> columns, rows |-> rows]

\* Row.makeCell: a cell of the column, its element shown
MakeCell(aColumn) == [cid |-> aColumn.cid, hidden |-> FALSE]

\* the cells that Row.initialize makes, from the i-th column on
RECURSIVE MakeCells(_, _)
MakeCells(someColumns, i) ==
  IF i >= Len(someColumns) THEN <<>>
  ELSE <<MakeCell(someColumns[i + 1])>> \o MakeCells(someColumns, i + 1)

\* Row.initialize: a cell for every column, in the order of the columns
RowInitialize(someColumns) ==
  [cells |-> MakeCells(someColumns, 0), rendered |-> FALSE, children |-> <<>>]

\* $el.children().eq(i).before(node): nothing when there is no i-th child
Before(children, i, node) ==
  IF i + 1 \in DOMAIN children THEN SpliceIn(children, i, node) ELSE children

\* cells.splice(i, 0, cell): an index past the end is the end
Splice(cells, i, aCell) ==
  SpliceIn(cells, IF i > Len(cells) THEN Len(cells) ELSE i, aCell)

\* Row._onColumnAdd(column, columns)
OnColumnAdd(r, aColumn) ==
  LET i == IndexOf(r.columns, aColumn.cid)
      made1 == MakeCell(aColumn)
      aCell == IF ~aColumn.renderable THEN [made1 EXCEPT !.hidden = TRUE]
               ELSE made1
  IN  [r EXCEPT !.rows.cells = Splice(@, i, aCell),
                !.rows.children =
                   IF i = 0 THEN <<aCell.cid>> \o @
                   ELSE IF i = Len(r.columns) - 1 THEN Append(@, aCell.cid)
                   ELSE Before(@, i, aCell.cid)]

\* Row._onColumnRemove(column, columns, opts): cells[opts.index].remove(), a
\* TypeError when there is no such cell, then the splice
OnColumnRemove(r, aColumn, index) ==
  IF index + 1 \in DOMAIN r.rows.cells
  THEN [r EXCEPT !.rows.children =
                    SelectSeq(@, LAMBDA node : node # r.rows.cells[index + 1].cid),
                 !.rows.cells = SpliceOut(@, index)]
  ELSE [r EXCEPT !.thrown = TRUE]

\* Row._onColumnChangeRenderable(column, renderable)
OnColumnChangeRenderable(r, aColumn, renderable) ==
  [r EXCEPT !.rows.cells =
     [i \in DOMAIN @ |->
        IF NameOf(@[i].cid) = aColumn.name
        THEN [@[i] EXCEPT !.hidden = ~renderable]
        ELSE @[i]]]

\* Row.render(): the children are removed, and the element of every cell is
\* appended in the order of the cells
RowRenderAll(r) ==
  [r EXCEPT !.rows.children = [i \in DOMAIN r.rows.cells |-> r.rows.cells[i].cid],
            !.rows.rendered = TRUE]

\* "add" is triggered for each of the columns added, from the i-th on, once
\* all of them are in the collection
RECURSIVE TriggerAdd(_, _, _)
TriggerAdd(r, added, i) ==
  IF i >= Len(added) \/ r.thrown THEN r
  ELSE TriggerAdd(OnColumnAdd(r, added[i + 1]), added, i + 1)

\* columns.add(added, {at: at}) of Backbone: the columns are spliced in at the
\* index, and then "add" is triggered for each
ColumnsAdd(r, added, at) ==
  TriggerAdd([r EXCEPT !.columns =
                 SubSeq(@, 1, at) \o added \o SubSeq(@, at + 1, Len(@))],
             added, 0)

\* columns.remove(column) of Backbone: the column is spliced out and "remove"
\* is triggered with the index it had
ColumnsRemove(r, aColumn) ==
  LET index == IndexOf(r.columns, aColumn.cid)
  IN  OnColumnRemove([r EXCEPT !.columns = SpliceOut(@, index)], aColumn, index)

\* column.set("renderable", renderable) of Backbone, on a column of the
\* collection: "change:renderable" is triggered on the collection
ColumnSetRenderable(r, index, renderable) ==
  LET changed == [r EXCEPT !.columns[index + 1].renderable = renderable]
  IN  OnColumnChangeRenderable(changed, changed.columns[index + 1], renderable)

\* a column with the cid
Column(cid, renderable) ==
  [name |-> NameOf(cid), cid |-> cid, renderable |-> renderable]

\* the cids of the columns of the collection
ColumnCids == {columns[i].cid : i \in DOMAIN columns}

\* the lists of up to n columns of distinct cids among the given ones
ColumnLists(cids, n) ==
  {list \in UNION {[1..k -> [name : {"a", "b"}, cid : cids, renderable : BOOLEAN]] :
                     k \in 0..n} :
     /\ \A i \in DOMAIN list : list[i].name = NameOf(list[i].cid)
     /\ \A i, j \in DOMAIN list : list[i].cid = list[j].cid => i = j}

\* the call ends, by a return or by an exception; seen keeps the last call
RowBecomes(r, op, given) ==
  /\ columns' = r.columns
  /\ rows' = r.rows
  /\ thrown' = r.thrown
  /\ seen' = <<[given |-> given, op |-> op]>>
  /\ UNCHANGED <<header, collection, sortEvent>>
  /\ UNCHANGED <<column, validate, model, cell, editors, made, trace>>
  /\ UNCHANGED callVars

\* columns.add(added, {at: at}) by the application
ColumnsAddCall ==
  \E added \in ColumnLists((1..MaxColumns) \ ColumnCids, MaxAdded) :
    /\ added # <<>>
    /\ \E at \in 0..Len(columns) :
         RowBecomes(ColumnsAdd(RowWorld, added, at), "add",
                    [i \in DOMAIN added |-> added[i].cid])

\* columns.remove(column) by the application
ColumnsRemoveCall ==
  \E i \in DOMAIN columns :
    RowBecomes(ColumnsRemove(RowWorld, columns[i]), "remove", <<columns[i].cid>>)

\* column.set("renderable", renderable) by the application, a change
ColumnSetRenderableCall ==
  \E i \in DOMAIN columns :
    RowBecomes(ColumnSetRenderable(RowWorld, i - 1, ~columns[i].renderable),
               "change:renderable", <<columns[i].cid>>)

\* row.render() by the Body
RowRenderCall ==
  LET r == RowRenderAll(RowWorld) IN RowBecomes(r, "render", <<>>)

\* a Row constructed over a collection of columns
RowInit ==
  /\ columns \in ColumnLists(1..MaxColumns, MaxColumns)
  /\ rows = RowInitialize(columns)
  /\ seen = <<>>
  /\ header = <<>>
  /\ collection = <<>>
  /\ sortEvent = <<>>
  /\ NoCellEdited
  /\ NoCall

RowNext ==
  \/ ColumnsAddCall
  \/ ColumnsRemoveCall
  \/ ColumnSetRenderableCall
  \/ RowRenderCall

RowSpec == RowInit /\ [][RowNext]_vars

----------------------------------------------------------------------------
(* Properties of Row *)

\* the cells are those of the columns, in their order
CellsAligned ==
  /\ Len(rows.cells) = Len(columns)
  /\ \A i \in DOMAIN columns : rows.cells[i].cid = columns[i].cid

\* the children of the row's element are the elements of the cells, in their
\* order
ChildrenAligned ==
  rows.children = [i \in DOMAIN rows.cells |-> rows.cells[i].cid]

\* C37: after construction and after any sequence of column add and remove
\* notifications, cells.length is the number of columns and cells[i].column
\* is the i-th column; once the row has been rendered, the children of the
\* row's element are the elements of the cells in that order.
C37_CellsFollowColumns ==
  /\ CellsAligned
  /\ rows.rendered => ChildrenAligned
  /\ ~thrown

\* what holds: the cells follow the columns, and so do the children of a
\* rendered row for as long as columns are added one at a time
C37_CellsOnly == CellsAligned /\ ~thrown
C37_OneAtATime ==
  [][(rows.rendered /\ ChildrenAligned
        /\ seen' # <<>> /\ (seen'[1].op = "add" => Len(seen'[1].given) = 1))
       => ChildrenAligned']_vars

\* two columns added by one call to a rendered row left the element of the
\* first of them out of the row's element
ChildLost ==
  /\ rows.rendered /\ CellsAligned
  /\ seen # <<>> /\ seen[1].op = "add" /\ Len(seen[1].given) = 2
  /\ \A i \in DOMAIN rows.children : rows.children[i] # seen[1].given[1]
  /\ \E i \in DOMAIN rows.children : rows.children[i] = seen[1].given[2]

\* C38: in every state reached by construction followed by any sequence of
\* column add, remove and change:renderable notifications, a cell of the
\* rendered row is shown if and only if its column's renderable flag is true,
\* the cells of the columns that were not renderable when the row was
\* constructed included.
C38_ShownIffRenderable ==
  (rows.rendered /\ CellsAligned /\ ChildrenAligned) =>
     \A i \in DOMAIN rows.cells :
        ~rows.cells[i].hidden <=> columns[i].renderable

\* the cell of a column that was not renderable when the row was constructed
\* is shown in the rendered row
ShownThoughNotRenderable ==
  /\ seen # <<>> /\ seen[1].op = "render"
  /\ CellsAligned /\ ChildrenAligned
  /\ \E i \in DOMAIN rows.cells :
       ~rows.cells[i].hidden /\ ~columns[i].renderable

\* the change of a column hid the cell of another column of the same name
HiddenByNamesake ==
  /\ seen # <<>> /\ seen[1].op = "change:renderable"
  /\ rows.rendered /\ CellsAligned /\ ChildrenAligned
  /\ \E i \in DOMAIN rows.cells :
       /\ columns[i].cid # seen[1].given[1]
       /\ rows.cells[i].hidden /\ columns[i].renderable

====
